---- MODULE Spec2Model ----
(***************************************************************************)
(* Verification model of the EPCalculator exponent engine and its callers. *)
(*                                                                         *)
(*   SpecOpt  - rho optimizers of exponents/optimize_E_of_R.py             *)
(*   SpecMB   - Maxwell-Boltzmann fixed-point loop of                      *)
(*              test_python_high_beta.py / test_maxwell_fixedpoint.py      *)
(*   SpecE0   - E0Calculator of exponents/gauss_hermite_python.py          *)
(*   SpecApi  - /exponents and /assistant request paths of main.py         *)
(***************************************************************************)
EXTENDS Integers, Sequences, FiniteSets, TLC

VARIABLES
    E0prof,     \* optimizer: the values compute_E0 returns on the rho grid
    optRes,     \* optimizer: result of compute_E_of_R_smart per rate called
    mbM,        \* shaping: argument M of test_maxwell_boltzmann
    mbBeta,     \* shaping: argument beta
    mbPc,       \* shaping: "off", "start", "loop", "after", "returned", "raised"
    pattern,    \* shaping: the QAM pattern, in units of delta
    s,          \* shaping: scale factor, as a step on the grid of scale values
    iteration,  \* shaping: iterations run so far that did not meet the tolerance
    converged,  \* shaping: flag of the same name
    final_iter, \* shaping: variable of the same name
    delta_s,    \* shaping: |s_new - s| of the latest iteration
    Q,          \* shaping: probability vector of the latest iteration
    Qprev,      \* shaping: probability vector of the iteration before (history)
    fpMemo,     \* shaping: the s -> s_new values the float arithmetic has produced
    mbRaisedAt, \* shaping: source line of the exception, 0 if none
    mbResult,   \* shaping: what test_maxwell_boltzmann returned
    calc,       \* calculator: the E0Calculator object under construction / built
    e0Out,      \* calculator: the latest compute_E0 evaluation
    ZW,         \* calculator: what the latest compute_2d_quadrature_grid(N) returned
    server,             \* service: "up" while the app is serving, "off" otherwise
    conversation_store, \* service: dict of the same name, session id -> history
    agentSession,       \* service: session whose list openrouter_agent.conversation_history is
    agentDetached,      \* service: that list's entries once it is no longer in the store
    reqCount,           \* service: requests handled so far
    function_calls,     \* service: the calls parsed while the latest request was handled
    apiResponse,        \* service: what the latest request returned
    engineCall,         \* service: the latest invocation of lib.exponents
    query,              \* service: SNR of the query string of the latest GET /exponents
    context,            \* service: session and history entries of the latest LLM context
    sessionLog,         \* service: every entry recorded for a stored session, oldest first
    clock,              \* service: time.time() of the latest entry
    computeRun,         \* service: what the latest POST /compute called and got back
    E0curve,    \* cached optimizer: compute_E0(rho, SNR, N) of the instance, by rho
    E0_cache,   \* cached optimizer: self.E0_cache, rounded rho -> value
    eval_count, \* cached optimizer: self.eval_count
    callCount,  \* cached optimizer: calls made so far
    lastCall,   \* cached optimizer: what the latest call did and returned
    callLog,    \* cached optimizer: (R, E_R, rho*) of every compute_E_of_R call on the instance
    searchMemo, \* cached optimizer: R -> the points and the success flag of its search
    chat,       \* terminal chat: calls, results and answer of the latest query or execution
    parseRun    \* parser: a model response and what parse_function_calls made of it

optVars == <<E0prof, optRes>>

mbVars == <<mbM, mbBeta, mbPc, pattern, s, iteration, converged, final_iter,
            delta_s, Q, Qprev, fpMemo, mbRaisedAt, mbResult>>

calcVars == <<calc, e0Out, ZW>>

apiVars == <<server, conversation_store, agentSession, agentDetached, reqCount, function_calls, apiResponse,
             engineCall, query, context, sessionLog, clock, computeRun>>

cacheVars == <<E0curve, E0_cache, eval_count, callCount, lastCall, callLog, searchMemo>>

chatVars == <<chat, parseRun>>

vars == <<optVars, mbVars, calcVars, apiVars, cacheVars, chatVars>>

(***************************************************************************)
(* Optimizer (exponents/optimize_E_of_R.py)                                *)
(*                                                                         *)
(* rho runs over the grid k / RhoSteps, k in 0..RhoSteps.  E0 values and   *)
(* rates are integers in one common unit; rates are multiples of RhoSteps  *)
(* so that rho * R is an integer in that unit.                             *)
(***************************************************************************)
RhoSteps == 2
MaxE0 == 4
MaxRate == 3

RhoGrid == 0..RhoSteps
Rates == {RhoSteps * r : r \in 0..MaxRate}

\* E0 profiles of the channel: E0(0) = 0, nondecreasing and concave in rho.
Profiles ==
    {p \in [RhoGrid -> 0..MaxE0] :
        /\ p[0] = 0
        /\ \A k \in 1..RhoSteps : p[k] >= p[k-1]
        /\ \A k \in 1..(RhoSteps-1) : p[k+1] - p[k] <= p[k] - p[k-1]}

\* compute_E0(rho, SNR, N) for the fixed (SNR, N) of the run
compute_E0(k) == E0prof[k]

\* rho * R at grid point k
RhoTimes(k, R) == (k * R) \div RhoSteps

\* objective(rho) as defined inside the optimizers (negated, to be minimised)
objective(k, R) == -(compute_E0(k) - RhoTimes(k, R))

\* position of the first minimum of objective over the grid points ks (a sequence)
RECURSIVE ArgMinSeq(_, _, _)
ArgMinSeq(ks, R, best) ==
    IF ks = <<>> THEN best
    ELSE ArgMinSeq(Tail(ks), R,
                   IF objective(Head(ks), R) < objective(best, R) THEN Head(ks) ELSE best)

InteriorGrid == [i \in 1..(RhoSteps-1) |-> i]

\* minimize_scalar(objective, bounds=(0, 1), method='bounded'): the bounded
\* search evaluates the objective at points of the open interval only and
\* returns the best of them.
minimize_scalar(R) ==
    LET x == ArgMinSeq(Tail(InteriorGrid), R, Head(InteriorGrid))
    IN  [x |-> x, fun |-> objective(x, R), trace |-> InteriorGrid]

compute_E_of_R_smart_swapped(R) ==
    LET E0_at_0 == compute_E0(0)
        E0_at_1 == compute_E0(RhoSteps)
    IN  IF E0_at_1 - R >= E0_at_0
        THEN [E_R |-> E0_at_1 - R, rho |-> RhoSteps, n_evals |-> 2,
              trace |-> <<0, RhoSteps>>]
        ELSE [E_R |-> E0_at_1, rho |-> 0, n_evals |-> 2,
              trace |-> <<0, RhoSteps>>]

compute_E_of_R_smart_strict(R) ==
    LET E0_at_0 == compute_E0(0)
        E0_at_1 == compute_E0(RhoSteps)
    IN  IF E0_at_1 - R > E0_at_0
        THEN [E_R |-> E0_at_1 - R, rho |-> RhoSteps, n_evals |-> 2,
              trace |-> <<0, RhoSteps>>]
        ELSE [E_R |-> E0_at_0, rho |-> 0, n_evals |-> 2,
              trace |-> <<0, RhoSteps>>]

\* compute_E_of_R_smart(R, SNR, N): E_R, rho*, the evaluation count, and the
\* grid points at which compute_E0 was called, in call order.
compute_E_of_R_smart(R) ==
    LET E0_at_0 == compute_E0(0)
        E0_at_1 == compute_E0(RhoSteps)
        result == minimize_scalar(R)
    IN  IF E0_at_1 - R >= E0_at_0
        THEN [E_R |-> E0_at_1 - R, rho |-> RhoSteps, n_evals |-> 2,
              trace |-> <<0, RhoSteps>>]
        ELSE IF E0_at_0 >= E0_at_1 - R
        THEN [E_R |-> E0_at_0, rho |-> 0, n_evals |-> 2,
              trace |-> <<0, RhoSteps>>]
        ELSE [E_R |-> -result.fun, rho |-> result.x,
              n_evals |-> 2 + Len(result.trace),
              trace |-> <<0, RhoSteps>> \o result.trace]

(***************************************************************************)
(* Maxwell-Boltzmann shaping loop (test_python_high_beta.py)               *)
(*                                                                         *)
(* The scale s lives on a finite grid of scale values, S0 standing for     *)
(* 1.0; one grid step is half the tolerance.  The floating-point value of  *)
(* s_new = 1/sqrt(E[|p|^2]) is an input of the model: any grid value, or   *)
(* the ZeroDivisionError Python raises when Q_sum or expected_energy is    *)
(* 0.0.  The same s always yields the same s_new (fpMemo).                 *)
(* A probability vector is kept by its log-ratios: Q[i] is proportional to *)
(* exp(-beta * s^2 * |p_i|^2), so Q[i]/Q_max = exp(-LogRatio[i]).          *)
(***************************************************************************)
MaxOrder == 9
MaxBeta == 2
MaxScale == 3

tolerance == 2
max_iterations == 1000
S0 == 1

Orders == 1..MaxOrder
Betas == 0..MaxBeta
ScaleGrid == 1..MaxScale

Abs(x) == IF x < 0 THEN -x ELSE x

\* int(math.sqrt(M))
IntSqrt(M) == CHOOSE l \in 0..M : l * l <= M /\ (l + 1) * (l + 1) > M

\* the L x L grid of (I_comp, Q_comp), in units of delta, row by row
QamPattern(L) ==
    [k \in 1..(L * L) |->
        <<2 * ((k - 1) \div L) - L + 1, 2 * ((k - 1) % L) - L + 1>>]

\* pattern_energy = [abs(p)**2 for p in pattern], in units of delta^2
pattern_energy(pat) == [k \in DOMAIN pat |-> pat[k][1] * pat[k][1] + pat[k][2] * pat[k][2]]

MinOf(f) == CHOOSE m \in {f[k] : k \in DOMAIN f} : \A k \in DOMAIN f : m <= f[k]

ShapedQ_floor(beta, sc, pe) ==
    [k \in DOMAIN pe |-> (beta + 1) * sc * sc * (pe[k] - MinOf(pe))]

\* Q = [q / Q_sum for q in unnormalized_Q] with
\* unnormalized_Q[i] = exp(-beta * s**2 * e_i), kept as log-ratios to the largest entry
ShapedQ(beta, sc, pe) ==
    [k \in DOMAIN pe |-> beta * sc * sc * (pe[k] - MinOf(pe))]

Uniform(q) == \A k \in DOMAIN q : q[k] = 0

\* outcome of lines 48-56 for the current s: a new scale or ZeroDivisionError
Scale(v) == [ok |-> TRUE, v |-> v, line |-> 0]
ZeroDivisionError(line) == [ok |-> FALSE, v |-> S0, line |-> line]

\* beta = 0 gives exp(0) = 1 for every point, hence Q uniform, expected
\* energy 1 (the pattern is built with unit mean energy) and s_new = 1.0;
\* equal energies give a uniform Q as well, unless every weight underflows.
StepOutcomes(beta, pe) ==
    IF beta = 0 THEN {Scale(S0)}
    ELSE IF \A k \in DOMAIN pe : pe[k] = MinOf(pe)
    THEN {Scale(S0), ZeroDivisionError(50)}
    ELSE {Scale(v) : v \in ScaleGrid} \cup {ZeroDivisionError(50), ZeroDivisionError(56)}

NotPerfectSquare_never(L, M) == FALSE

\* `if L * L != M:` of line 20
NotPerfectSquare(L, M) == L * L # M

NoResult == [kind |-> "none"]

ReturnNone == [kind |-> "None"]

ReturnDict_dropped(conv, fi, sc, q) ==
    IF conv
    THEN [kind |-> "dict", converged |-> conv, iterations |-> fi, final_s |-> sc, Q |-> q]
    ELSE [kind |-> "None"]

\* the dict returned at lines 109-119 (the fields the diagnostics depend on)
ReturnDict(conv, fi, sc, q) ==
    [kind |-> "dict", converged |-> conv, iterations |-> fi, final_s |-> sc, Q |-> q]

ConvergenceTest_loose(d) == d <= tolerance

\* if delta_s < tolerance
ConvergenceTest(d) == d < tolerance

(***************************************************************************)
(* E0Calculator (exponents/gauss_hermite_python.py)                        *)
(*                                                                         *)
(* Floats are fixed-point numbers: the integer v stands for v / FP.        *)
(* Complex numbers are pairs <<re, im>> of such numbers.                   *)
(***************************************************************************)
FP == 1000

Sgn(a) == IF a < 0 THEN -1 ELSE 1

\* a * b and a / b, rounded toward zero
Mul(a, b) == Sgn(a) * Sgn(b) * ((Abs(a) * Abs(b)) \div FP)
Div(a, b) == Sgn(a) * Sgn(b) * ((Abs(a) * FP) \div Abs(b))

RECURSIVE SqrtSearch(_, _, _)
SqrtSearch(n, lo, hi) ==
    IF hi - lo <= 1 THEN lo
    ELSE LET mid == (lo + hi) \div 2
         IN  IF mid * mid <= n THEN SqrtSearch(n, mid, hi) ELSE SqrtSearch(n, lo, mid)

\* np.sqrt of a non-negative number
SqrtFP(a) == SqrtSearch(a * FP, 0, 46340)

RECURSIVE Pow2(_)
Pow2(n) == IF n = 0 THEN 1 ELSE 2 * Pow2(n - 1)

\* np.exp(a): a = n ln2 + r with 0 <= r < ln2, exp(r) by its series to r^4
LN2 == 693
ExpFP(a) ==
    LET n == a \div LN2
        r == a - n * LN2
        p == FP + (r * (FP + (r * (FP + (r * (FP + r \div 4)) \div (3 * FP)))
                                \div (2 * FP))) \div FP
    IN  IF n >= 0 THEN p * Pow2(n)
        ELSE IF n < -20 THEN 0
        ELSE p \div Pow2(-n)

\* np.log2(a) for a > 0: exponent by halving/doubling, ten fraction bits by squaring
RECURSIVE Log2Frac(_, _)
Log2Frac(x, bits) ==
    IF bits = 0 THEN 0
    ELSE LET y == (x * x) \div FP
         IN  IF y >= 2 * FP
             THEN Pow2(bits - 1) + Log2Frac(y \div 2, bits - 1)
             ELSE Log2Frac(y, bits - 1)

RECURSIVE Log2FP(_)
Log2FP(a) ==
    IF a < FP THEN Log2FP(2 * a) - FP
    ELSE IF a >= 2 * FP THEN Log2FP(a \div 2) + FP
    ELSE (Log2Frac(a, 10) * FP) \div 1024

\* x ** rho for the exponents of the model; any float to the power 0.0 is 1.0
PowFP(x, rho) ==
    IF rho = 0 THEN FP
    ELSE IF rho = FP THEN x
    ELSE SqrtFP(x)

PI == 3142

\* abs(z)**2
Abs2(z) == Mul(z[1], z[1]) + Mul(z[2], z[2])

RECURSIVE SumSeq(_)
SumSeq(q) == IF q = <<>> THEN 0 ELSE Head(q) + SumSeq(Tail(q))

CalcOrders == {2, 3, 4}
CalcTypes == {"PAM", "PSK", "QAM", "APSK"}
CalcSNRs == {-1, 0, 1, 4, 200}
CalcRhos == {0, FP \div 2, FP}
NodeCounts == {1, 2, 3}

\* roots_hermite(N): nodes and weights of the weight function exp(-x^2)
roots_hermite(N) ==
    IF N = 1 THEN [nodes |-> <<0>>, weights |-> <<1772>>]
    ELSE IF N = 2 THEN [nodes |-> <<-707, 707>>, weights |-> <<886, 886>>]
    ELSE [nodes |-> <<-1225, 0, 1225>>, weights |-> <<295, 1182, 295>>]

\* np.exp(1j * 2 * np.pi * np.arange(M) / M)
UnitCircle(M) ==
    IF M = 2 THEN << <<FP, 0>>, <<-FP, 0>> >>
    ELSE IF M = 3 THEN << <<FP, 0>>, <<-500, 866>>, <<-500, -866>> >>
    ELSE << <<FP, 0>>, <<0, FP>>, <<-FP, 0>>, <<0, -FP>> >>

NoPoints == <<>>

\* _generate_constellation: the points, or the ValueError it raises
generate_constellation(M, type) ==
    IF type = "PAM"
    THEN [ok |-> TRUE, X |-> [i \in 1..M |-> <<(2 * (i - 1) - (M - 1)) * FP, 0>>]]
    ELSE IF type = "PSK"
    THEN [ok |-> TRUE, X |-> UnitCircle(M)]
    ELSE IF type = "QAM"
    THEN LET side == IntSqrt(M)
         IN  IF side * side # M
             THEN [ok |-> FALSE, X |-> NoPoints]
             ELSE [ok |-> TRUE,
                   X |-> [k \in 1..(side * side) |->
                             <<(2 * ((k - 1) \div side) - (side - 1)) * FP,
                               (2 * ((k - 1) % side) - (side - 1)) * FP>>]]
    ELSE [ok |-> FALSE, X |-> NoPoints]

\* self.Q = np.ones(M) / M
UniformQ(M) == [i \in 1..M |-> FP \div M]

\* _average_power: np.sum(self.Q * np.abs(self.X)**2)
average_power(X, Qv) == SumSeq([i \in DOMAIN X |-> Mul(Qv[i], Abs2(X[i]))])

normalize_constellation_unscaled(X, Qv) == X

\* _normalize_constellation: X / sqrt(avg_power)
normalize_constellation(X, Qv) ==
    LET scale == SqrtFP(average_power(X, Qv))
    IN  [i \in DOMAIN X |-> <<Div(X[i][1], scale), Div(X[i][2], scale)>>]

compute_2d_quadrature_grid_1d(N) ==
    LET r == roots_hermite(N)
    IN  [k \in 1..(N * N) |->
            [z |-> <<r.nodes[((k - 1) \div N) + 1], r.nodes[((k - 1) % N) + 1]>>,
             w |-> r.weights[((k - 1) \div N) + 1]]]

\* compute_2d_quadrature_grid(N): for i, for j: z = x_i + 1j*y_j, w = wx_i * wy_j
compute_2d_quadrature_grid(N) ==
    LET r == roots_hermite(N)
    IN  [k \in 1..(N * N) |->
            [z |-> <<r.nodes[((k - 1) \div N) + 1], r.nodes[((k - 1) % N) + 1]>>,
             w |-> Mul(r.weights[((k - 1) \div N) + 1], r.weights[((k - 1) % N) + 1])]]

\* sum over xbar of Q[j] * exp(-|z + sqrt(SNR) (x - xbar)|^2 / (1 + rho))
sum_over_xbar(X, Qv, sqrtSNR, z, x, rho) ==
    SumSeq([j \in DOMAIN X |->
        LET delta == <<z[1] + Mul(sqrtSNR, x[1] - X[j][1]),
                       z[2] + Mul(sqrtSNR, x[2] - X[j][2])>>
            D == Abs2(delta)
        IN  Mul(Qv[j], ExpFP((-D * FP) \div (FP + rho)))])

\* f(z, x, rho)
f_val(X, Qv, sqrtSNR, z, x, rho) ==
    Mul(ExpFP((Abs2(z) * FP) \div (FP + rho)), sum_over_xbar(X, Qv, sqrtSNR, z, x, rho))

\* integrand = np.exp(-np.abs(z)**2) * (f_val ** rho)
integrand(X, Qv, sqrtSNR, z, x, rho) ==
    Mul(ExpFP(-Abs2(z)), PowFP(f_val(X, Qv, sqrtSNR, z, x, rho), rho))

\* every argument compute_E0 hands to np.exp (lines 162, 165 and 168), as the
\* code computes it: -D / (1 + rho), abs(z)**2 / (1 + rho) and -abs(z)**2
exp_arguments(X, sqrtSNR, grid, rho) ==
    UNION {
        {(-Abs2(<<grid[k].z[1] + Mul(sqrtSNR, X[i][1] - X[j][1]),
                  grid[k].z[2] + Mul(sqrtSNR, X[i][2] - X[j][2])>>) * FP)
                 \div (FP + rho) : j \in DOMAIN X}
        \cup {(Abs2(grid[k].z) * FP) \div (FP + rho), -Abs2(grid[k].z)}
        : i \in DOMAIN X, k \in DOMAIN grid}

SetMin(S) == CHOOSE a \in S : \A b \in S : a <= b
SetMax(S) == CHOOSE a \in S : \A b \in S : a >= b

\* compute_E0(rho, N) on a constructed calculator c.  np.sqrt of a negative
\* SNR is nan, which every f_val inherits; nan ** 0.0 is still 1.0.
calc_compute_E0(c, rho, N) ==
    LET grid == compute_2d_quadrature_grid(N)
        isNaN == c.SNR < 0 /\ rho # 0
        sqrtSNR == IF c.SNR < 0 THEN 0 ELSE SqrtFP(c.SNR * FP)
        inner_sum(x) == SumSeq([k \in DOMAIN grid |->
                            Mul(grid[k].w, integrand(c.X, c.Q, sqrtSNR, grid[k].z, x, rho))])
        outer_sum == SumSeq([i \in DOMAIN c.X |->
                            Mul(c.Q[i], Div(inner_sum(c.X[i]), PI))])
        args == exp_arguments(c.X, sqrtSNR, grid, rho)
    IN  IF isNaN
        THEN [kind |-> "nan", rho |-> rho, N |-> N, SNR |-> c.SNR, outer_sum |-> 0, E0 |-> 0,
              exp_min |-> 0, exp_max |-> 0]
        ELSE [kind |-> "float", rho |-> rho, N |-> N, SNR |-> c.SNR,
              outer_sum |-> outer_sum, E0 |-> -Log2FP(outer_sum),
              exp_min |-> SetMin(args), exp_max |-> SetMax(args)]

NoGrid == [N |-> 0, grid |-> <<>>]
NoCalc == [status |-> "off", M |-> 0, type |-> "", SNR |-> 0, X |-> <<>>, Q |-> <<>>]
NoE0 == [kind |-> "none", rho |-> 0, N |-> 0, SNR |-> 0, outer_sum |-> 0, E0 |-> 0,
         exp_min |-> 0, exp_max |-> 0]

(***************************************************************************)
(* Request paths of main.py and the response parser of assistant.py        *)
(*                                                                         *)
(* A Python value is a record: t is "none" (None / key absent), "num" (int *)
(* or float, n in fixed point), "inf" (n the sign), "nan", "str" (s) or    *)
(* "list" (l, a sequence of scalar values).                                *)
(***************************************************************************)
MaxRequests == 2

PyNone == [t |-> "none", n |-> 0, s |-> "", l |-> <<>>]
Num(v) == [t |-> "num", n |-> v, s |-> "", l |-> <<>>]
Inf(sign) == [t |-> "inf", n |-> sign, s |-> "", l |-> <<>>]
NaN == [t |-> "nan", n |-> 0, s |-> "", l |-> <<>>]
Str(x) == [t |-> "str", n |-> 0, s |-> x, l |-> <<>>]
List(xs) == [t |-> "list", n |-> 0, s |-> "", l |-> xs]

\* the decimal literals of the model and their values
NumberTexts == {"0", "0.5", "1.0", "1.5", "2", "5", "10", "20", "-1", "-5"}
NumberValue(x) ==
    CASE x = "0" -> 0
      [] x = "0.5" -> FP \div 2
      [] x = "1.0" -> FP
      [] x = "1.5" -> FP + FP \div 2
      [] x = "2" -> 2 * FP
      [] x = "5" -> 5 * FP
      [] x = "10" -> 10 * FP
      [] x = "20" -> 20 * FP
      [] x = "-1" -> -FP
      [] x = "-5" -> -5 * FP

\* str.lower() on the texts of the model
Lower(x) ==
    CASE x = "Unknown" -> "unknown"
      [] x = "Infinity" -> "infinity"
      [] x = "NaN" -> "nan"
      [] OTHER -> x

\* float(text): the value, or PyNone for ValueError
PyFloat(x) ==
    IF x \in NumberTexts THEN Num(NumberValue(x))
    ELSE IF Lower(x) \in {"inf", "infinity"} THEN Inf(1)
    ELSE IF Lower(x) = "-inf" THEN Inf(-1)
    ELSE IF Lower(x) = "nan" THEN NaN
    ELSE PyNone

\* sanitize_query_param(value, default, target_type) of main.py, on a query string
sanitize_query_param(value, default, target_is_str) ==
    IF Lower(value) \in {"unknown", "undefined", "", "none", "null", "nan"}
    THEN default
    ELSE IF target_is_str THEN Str(value)
    ELSE IF PyFloat(value) = PyNone THEN default ELSE PyFloat(value)

NoCall == [ran |-> FALSE, M |-> PyNone, typeModulation |-> PyNone, SNR |-> PyNone,
           Rate |-> PyNone, N |-> PyNone]

\* call_cpp_exponents(params): what lib.exponents is run with
call_cpp_exponents(params) ==
    [ran |-> TRUE, M |-> params.M, typeModulation |-> params.typeModulation,
     SNR |-> params.SNR, Rate |-> params.Rate, N |-> params.N]

\* no POST /compute handled yet
NoRun == [function_name |-> "", parameters |-> <<>>, invoked |-> <<>>, engine |-> <<>>,
          returned |-> <<>>, is_list |-> FALSE, raised |-> 0, status |-> 0]

\* a query parameter the request does not carry takes the text of its Query(...)
NotGiven == "<not given>"
NoQuery == "<no request>"
Query(value, default) == IF value = NotGiven THEN default ELSE value

ParamNames == {"SNR", "R", "M", "typeModulation", "N"}

\* text of one parameter as the model wrote it: absent, a scalar, or [a, b]
Absent == [present |-> FALSE, list |-> FALSE, toks |-> <<>>]
Raw(x) == [present |-> TRUE, list |-> FALSE, toks |-> <<x>>]
RawList(xs) == [present |-> TRUE, list |-> TRUE, toks |-> xs]

\* lines 779-784 / 789-794: one value text to a Python value
ParseScalar(x) ==
    IF Lower(x) \in {"unknown", "undefined"} THEN Str("unknown")
    ELSE IF x \in NumberTexts THEN Num(NumberValue(x))
    ELSE Str(x)

ParseValue(raw) ==
    IF ~raw.present THEN PyNone
    ELSE IF raw.list THEN List([i \in DOMAIN raw.toks |-> ParseScalar(raw.toks[i])])
    ELSE ParseScalar(raw.toks[1])

IsUnknownOrNone(v) == v = Str("unknown") \/ v = PyNone

\* the elements of a value: of a list its entries, of a scalar itself
Elements(v) == IF v.t = "list" THEN v.l ELSE <<v>>

SnrBad(v) ==
    /\ ~IsUnknownOrNone(v)
    /\ \/ v.t = "str" /\ Lower(v.s) \in {"infinity", "inf"}
       \/ v.t = "num" /\ v.n < 0
SnrMsg(v) == IF v.t = "str" THEN "SNR cannot be infinity" ELSE "SNR must be >= 0"

\* the loop over a list keeps the message of its last offending element
SnrError(v) ==
    LET vs == Elements(v)
        bad == {i \in DOMAIN vs : SnrBad(vs[i])}
    IN  IF bad = {} THEN "" ELSE SnrMsg(vs[CHOOSE i \in bad : \A j \in bad : j <= i])

\* 0 < val <= 1 raises TypeError on a str
RateRaises(v) == ~IsUnknownOrNone(v) /\ v.t = "str"
RateBad(v) == ~IsUnknownOrNone(v) /\ v.t = "num" /\ ~(0 < v.n /\ v.n <= FP)
RateError(v) ==
    IF \E i \in DOMAIN Elements(v) : RateBad(Elements(v)[i])
    THEN "Rate must be between 0 and 1" ELSE ""

MBad(v) == ~IsUnknownOrNone(v) /\ (v.t # "num" \/ v.n < FP)
MError(v) ==
    IF \E i \in DOMAIN Elements(v) : MBad(Elements(v)[i])
    THEN "Modulation order M must be >= 1" ELSE ""

ModBad(v) == ~IsUnknownOrNone(v) /\ v \notin {Str("PAM"), Str("QAM")}
ModError(v) ==
    IF \E i \in DOMAIN Elements(v) : ModBad(Elements(v)[i])
    THEN "Modulation type must be one of ['PAM', 'QAM']" ELSE ""

NBad(v) == ~IsUnknownOrNone(v) /\ (v.t # "num" \/ v.n < FP)
NError(v) ==
    IF \E i \in DOMAIN Elements(v) : NBad(Elements(v)[i])
    THEN "Quadrature nodes N must be >= 1" ELSE ""

ComputeFunctions == {"computeErrorProbability", "computeErrorExponent", "computeOptimalRho"}
PlotFunctions == {"plotFromFunction", "plotContour"}

\* lines 800-861: is_valid, error_msg, or the exception the comparison raises
Validate(func_name, parameters) ==
    IF func_name \notin ComputeFunctions
    THEN [is_valid |-> TRUE, error_message |-> "", raised |-> FALSE]
    ELSE
    LET snr == parameters["SNR"]
        e1 == IF IsUnknownOrNone(snr) THEN "" ELSE SnrError(snr)
        rate == parameters["R"]
        rateChecked == e1 = "" /\ ~IsUnknownOrNone(rate)
        raised == rateChecked /\ \E i \in DOMAIN Elements(rate) : RateRaises(Elements(rate)[i])
        e2 == IF e1 # "" THEN e1
              ELSE IF rateChecked THEN RateError(rate) ELSE ""
        m == parameters["M"]
        e3 == IF e2 # "" THEN e2
              ELSE IF ~IsUnknownOrNone(m) THEN MError(m) ELSE ""
        mod == parameters["typeModulation"]
        e4 == IF e3 # "" THEN e3
              ELSE IF ~IsUnknownOrNone(mod) THEN ModError(mod) ELSE ""
        nv == parameters["N"]
        e5 == IF e4 # "" THEN e4
              ELSE IF ~IsUnknownOrNone(nv) THEN NError(nv) ELSE ""
    IN  [is_valid |-> ~raised /\ e5 = "", error_message |-> IF raised THEN "Parsing error" ELSE e5,
         raised |-> raised]

NoParameters == [k \in ParamNames |-> PyNone]

\* the FunctionCall appended for a line matching "Computing <func> with ..."
ParseCallLine(line) ==
    LET parameters == [k \in ParamNames |-> ParseValue(line.args[k])]
        v == Validate(line.func, parameters)
    IN  [function_name |-> line.func,
         parameters |-> IF v.raised THEN NoParameters ELSE parameters,
         is_valid |-> v.is_valid, error_message |-> v.error_message]

IsCallLine(line) == line.func # ""
IsTextLine(line) == line.func = ""

\* parse_function_calls(response): the conversational lines and the calls
parse_function_calls(response) ==
    LET callLines == SelectSeq(response, IsCallLine)
    IN  [intro_text |-> SelectSeq(response, IsTextLine),
         function_calls |-> [i \in DOMAIN callLines |-> ParseCallLine(callLines[i])]]

\* safe_float(value, default) of the two plot branches
safe_float(value, default) ==
    IF IsUnknownOrNone(value) THEN default
    ELSE IF value.t = "num" THEN value
    ELSE IF value.t = "str" /\ PyFloat(value.s) # PyNone THEN PyFloat(value.s)
    ELSE default

Get(parameters, k, default) == IF parameters[k] = PyNone THEN default ELSE parameters[k]

\* `if v == 'unknown' or v is None: v = default`
OrDefault(v, default) == IF IsUnknownOrNone(v) THEN default ELSE v

\* plot_payload of the plotFromFunction branch (model parameters only)
plot_payload(pp) ==
    [k \in ParamNames |->
        CASE k = "typeModulation" -> Get(pp, k, Str("PAM"))
          [] k = "M" -> safe_float(Get(pp, k, Num(2 * FP)), Num(2 * FP))
          [] k = "SNR" -> safe_float(OrDefault(Get(pp, k, Num(5 * FP)), Num(5 * FP)), Num(FP \div 2))
          [] k = "R" -> safe_float(OrDefault(Get(pp, k, Num(FP \div 2)), Num(FP \div 2)), Num(FP \div 2))
          [] k = "N" -> safe_float(OrDefault(Get(pp, k, Num(20 * FP)), Num(20 * FP)), Num(20 * FP))]

\* contour_payload of the plotContour branch (model parameters only)
contour_payload(pp) ==
    [k \in ParamNames |->
        CASE k = "typeModulation" -> Get(pp, k, Str("PAM"))
          [] k = "M" -> safe_float(OrDefault(Get(pp, k, Num(2 * FP)), Num(2 * FP)), Num(2 * FP))
          [] k = "SNR" -> safe_float(OrDefault(Get(pp, k, Num(FP \div 2)), Num(5 * FP)), Num(5 * FP))
          [] k = "R" -> safe_float(OrDefault(Get(pp, k, Num(FP \div 2)), Num(FP \div 2)), Num(FP \div 2))
          [] k = "N" -> safe_float(OrDefault(Get(pp, k, Num(20 * FP)), Num(20 * FP)), Num(20 * FP))]

NoTask == [function_name |-> "", parameters |-> NoParameters, is_plot_request |-> FALSE]

NoResponse == [endpoint |-> "", status |-> 0, message |-> "", task |-> NoTask]

NoContext == [session_id |-> "", entries |-> <<>>]

\* lines 553-798 of chatbot_with_bot: the JSON returned for the parsed response
assistant_response(intro_text, calls) ==
    IF calls = <<>>
    THEN [endpoint |-> "/assistant", status |-> 200, message |-> "response_text", task |-> NoTask]
    ELSE LET task == calls[1]
         IN  IF task.function_name = "plotFromFunction"
             THEN [endpoint |-> "/assistant", status |-> 200,
                   message |-> IF intro_text # <<>> THEN "intro_text" ELSE "fallback",
                   task |-> [function_name |-> "plotFromFunction",
                             parameters |-> plot_payload(task.parameters),
                             is_plot_request |-> TRUE]]
             ELSE IF task.function_name = "plotContour"
             THEN [endpoint |-> "/assistant", status |-> 200,
                   message |-> IF intro_text # <<>> THEN "intro_text" ELSE "fallback",
                   task |-> [function_name |-> "plotContour",
                             parameters |-> contour_payload(task.parameters),
                             is_plot_request |-> TRUE]]
             ELSE [endpoint |-> "/assistant", status |-> 200,
                   message |-> IF intro_text # <<>> THEN "intro_text" ELSE "fallback",
                   task |-> [function_name |-> task.function_name,
                             parameters |-> task.parameters,
                             is_plot_request |-> FALSE]]

(***************************************************************************)
(* Optimizers that search the interior (exponents/compute_E_of_R.py,       *)
(* exponents/optimize_E_of_R.py)                                           *)
(*                                                                         *)
(* rho runs over the fine grid k / FineSteps, k in 0..FineSteps.  The cache*)
(* key round(rho, 6) is coarser than the floats the search produces:       *)
(* KeyWidth neighbouring grid points share one key.  E0 values and rates   *)
(* are integers; objective values and E_R are kept multiplied by FineSteps *)
(* so that rho * R stays an integer.                                       *)
(***************************************************************************)
Buckets == 2
MaxCurve == 2
MaxCachedRate == 4
MaxCalls == 2

\* grid points per cache key: a key and the points just below it that round
\* up to it
KeyWidth == 2

FineSteps == Buckets * KeyWidth
FineGrid == 0..FineSteps
CachedRates == (-1)..MaxCachedRate

\* E0 curves of the channel: E0(0) = 0, nondecreasing and concave in rho
Curves ==
    {p \in [FineGrid -> 0..MaxCurve] :
        /\ p[0] = 0
        /\ \A k \in 1..FineSteps : p[k] >= p[k-1]
        /\ \A k \in 1..(FineSteps-1) : p[k+1] - p[k] <= p[k] - p[k-1]}

\* rho_key = round(rho, 6)
rho_key(k) == ((k + KeyWidth - 1) \div KeyWidth) * KeyWidth

\* the keys strictly inside (0, 1)
InteriorKeys == [i \in 1..(Buckets-1) |-> i * KeyWidth]

\* The abscissae of one bounded search: the method stays inside the open
\* interval, its points are further apart than a cache key is wide, and
\* where in a key's range a point falls depends on R and on the objective
\* values seen.  One point per interior key, in increasing order.  On one
\* instance the same R always meets the same values, hence the same points
\* (searchMemo).
ProbeSeqs ==
    {q \in [1..(Buckets-1) -> FineGrid] :
        \A i \in 1..(Buckets-1) : rho_key(q[i]) = InteriorKeys[i]}

\* state of a CachedE0Computer together with what a call has done so far
Computer(cache, count) ==
    [E0_cache |-> cache, eval_count |-> count, invoked |-> <<>>, reads |-> <<>>, value |-> 0]

compute_E0_cached_uncounted(c, k) ==
    IF rho_key(k) \in DOMAIN c.E0_cache
    THEN [c EXCEPT !.value = c.E0_cache[rho_key(k)],
                   !.reads = Append(@, [rho |-> k, value |-> c.E0_cache[rho_key(k)]])]
    ELSE [E0_cache |-> c.E0_cache @@ (rho_key(k) :> E0curve[k]),
          eval_count |-> c.eval_count,
          invoked |-> Append(c.invoked, k),
          reads |-> Append(c.reads, [rho |-> k, value |-> E0curve[k]]),
          value |-> E0curve[k]]

\* CachedE0Computer.compute_E0_cached(rho)
compute_E0_cached(c, k) ==
    IF rho_key(k) \in DOMAIN c.E0_cache
    THEN [c EXCEPT !.value = c.E0_cache[rho_key(k)],
                   !.reads = Append(@, [rho |-> k, value |-> c.E0_cache[rho_key(k)]])]
    ELSE [E0_cache |-> c.E0_cache @@ (rho_key(k) :> E0curve[k]),
          eval_count |-> c.eval_count + 1,
          invoked |-> Append(c.invoked, k),
          reads |-> Append(c.reads, [rho |-> k, value |-> E0curve[k]]),
          value |-> E0curve[k]]

\* the bounded search of CachedE0Computer.compute_E_of_R over the points
\* probes: objective(rho) = -self.compute_E0_cached(rho) + rho * R
RECURSIVE minimize_scalar_cached(_, _, _, _)
minimize_scalar_cached(c, probes, R, best) ==
    IF probes = <<>> THEN [c |-> c, x |-> best.x, fun |-> best.fun]
    ELSE LET c2 == compute_E0_cached(c, Head(probes))
             f == -(FineSteps * c2.value) + Head(probes) * R
         IN  minimize_scalar_cached(c2, Tail(probes), R,
                 IF best.x = -1 \/ f < best.fun THEN [x |-> Head(probes), fun |-> f]
                 ELSE best)

NoBest == [x |-> -1, fun |-> 0]

\* CachedE0Computer.compute_E_of_R(R) on the instance state c; success is
\* result.success of the search
cached_compute_E_of_R(c, R, probes, success) ==
    LET evals_before == c.eval_count
        c1 == compute_E0_cached(c, FineSteps)
        E0_1 == c1.value
        c0 == compute_E0_cached(c1, 0)
        E0_0 == c0.value
        result == minimize_scalar_cached(c0, probes, R, NoBest)
    IN  IF R <= 0
        THEN [c |-> c1, fn |-> "CachedE0Computer.compute_E_of_R", R |-> R,
              E_R |-> FineSteps * E0_1, rho |-> FineSteps,
              n_evals |-> c1.eval_count - evals_before,
              invoked |-> c1.invoked, reads |-> c1.reads,
              searched |-> FALSE, success |-> TRUE, outcome |-> "returned"]
        ELSE IF E0_1 - R >= E0_0
        THEN [c |-> c0, fn |-> "CachedE0Computer.compute_E_of_R", R |-> R,
              E_R |-> FineSteps * (E0_1 - R), rho |-> FineSteps,
              n_evals |-> c0.eval_count - evals_before,
              invoked |-> c0.invoked, reads |-> c0.reads,
              searched |-> FALSE, success |-> TRUE, outcome |-> "returned"]
        ELSE [c |-> result.c, fn |-> "CachedE0Computer.compute_E_of_R", R |-> R,
              E_R |-> -result.fun, rho |-> result.x,
              n_evals |-> result.c.eval_count - evals_before,
              invoked |-> result.c.invoked, reads |-> result.c.reads,
              searched |-> TRUE, success |-> success, outcome |-> "returned"]

\* objective(rho) of the optimizers without a cache: eval_count[0] += 1 and
\* -(compute_E0(rho, SNR, N) - rho * R)
objective_counted(c, k, R) ==
    [eval_count |-> c.eval_count + 1,
     invoked |-> Append(c.invoked, k),
     reads |-> Append(c.reads, [rho |-> k, value |-> E0curve[k]]),
     value |-> -(FineSteps * E0curve[k] - k * R)]

NoEvals == [eval_count |-> 0, invoked |-> <<>>, reads |-> <<>>, value |-> 0]

\* minimize_scalar(objective, bounds=(0, 1), method='bounded') over the points probes
RECURSIVE minimize_scalar_counted(_, _, _, _)
minimize_scalar_counted(c, probes, R, best) ==
    IF probes = <<>> THEN [c |-> c, x |-> best.x, fun |-> best.fun]
    ELSE LET c2 == objective_counted(c, Head(probes), R)
         IN  minimize_scalar_counted(c2, Tail(probes), R,
                 IF best.x = -1 \/ c2.value < best.fun
                 THEN [x |-> Head(probes), fun |-> c2.value]
                 ELSE best)

\* compute_E_of_R(R, SNR, N) of compute_E_of_R.py
compute_E_of_R(R, probes, success) ==
    LET result == minimize_scalar_counted(NoEvals, probes, R, NoBest)
    IN  [fn |-> "compute_E_of_R", R |-> R,
         E_R |-> -result.fun, rho |-> result.x, n_evals |-> result.c.eval_count,
         invoked |-> result.c.invoked, reads |-> result.c.reads,
         searched |-> TRUE, success |-> success, outcome |-> "returned"]

\* compute_E_of_R_relaxed_tol(R, SNR, N)
compute_E_of_R_relaxed_tol(R, probes, success) ==
    LET result == minimize_scalar_counted(NoEvals, probes, R, NoBest)
    IN  [fn |-> "compute_E_of_R_relaxed_tol", R |-> R,
         E_R |-> -result.fun, rho |-> result.x, n_evals |-> result.c.eval_count,
         invoked |-> result.c.invoked, reads |-> result.c.reads,
         searched |-> TRUE, success |-> success, outcome |-> "returned"]

NoCallYet == [fn |-> "", R |-> 0, E_R |-> 0, rho |-> 0, n_evals |-> 0,
              invoked |-> <<>>, reads |-> <<>>, searched |-> FALSE, success |-> TRUE,
              outcome |-> "", added |-> {}]

(***************************************************************************)
(* States in which a program of the repository is not part of the run      *)
(***************************************************************************)
OptOff ==
    /\ E0prof = [k \in RhoGrid |-> 0]
    /\ optRes = [R \in Rates |-> [E_R |-> 0, rho |-> 0, n_evals |-> 0, trace |-> <<>>]]

MBIdle ==
    /\ pattern = <<>>
    /\ s = S0
    /\ iteration = 0
    /\ converged = FALSE
    /\ final_iter = -1
    /\ delta_s = 0
    /\ Q = <<>>
    /\ Qprev = <<>>
    /\ fpMemo = <<>>
    /\ mbRaisedAt = 0
    /\ mbResult = NoResult

MBOff ==
    /\ mbM = 0
    /\ mbBeta = 0
    /\ mbPc = "off"
    /\ MBIdle

E0Off ==
    /\ calc = NoCalc
    /\ e0Out = NoE0
    /\ ZW = NoGrid

CacheOff ==
    /\ E0curve = [k \in FineGrid |-> 0]
    /\ E0_cache = <<>>
    /\ eval_count = 0
    /\ callCount = MaxCalls
    /\ lastCall = NoCallYet
    /\ callLog = {}
    /\ searchMemo = <<>>

NoChat == [op |-> "", keywords |-> FALSE, function_calls |-> <<>>, execution_results |-> <<>>,
           invoked |-> <<>>, raised |-> <<>>, follow_up |-> "", printed_summary |-> FALSE]

NoParse == [op |-> "", response |-> <<>>, conversational_lines |-> <<>>, function_calls |-> <<>>]

ChatOff == chat = NoChat /\ parseRun = NoParse

ApiOff ==
    /\ server = "off"
    /\ conversation_store = <<>>
    /\ agentSession = ""
    /\ agentDetached = <<>>
    /\ reqCount = 0
    /\ function_calls = <<>>
    /\ apiResponse = NoResponse
    /\ engineCall = NoCall
    /\ query = NoQuery
    /\ context = NoContext
    /\ sessionLog = <<>>
    /\ clock = 0
    /\ computeRun = NoRun

(***************************************************************************)
(* Optimizer: runs                                                         *)
(***************************************************************************)
InitOpt ==
    /\ E0prof \in Profiles
    /\ optRes = <<>>
    /\ MBOff
    /\ E0Off
    /\ ChatOff
    /\ ApiOff
    /\ CacheOff

\* one call compute_E_of_R_smart(R, SNR, N) at a rate not yet tried
CallSmart ==
    \E R \in Rates \ DOMAIN optRes :
        /\ optRes' = optRes @@ (R :> compute_E_of_R_smart(R))
        /\ UNCHANGED <<E0prof, mbVars, calcVars, apiVars, cacheVars, chatVars>>

NextOpt == CallSmart

SpecOpt == InitOpt /\ [][NextOpt]_vars

\* value of E0(rho) - rho*R at grid point k
Gain(k, R) == compute_E0(k) - RhoTimes(k, R)

MaxGain(R) == CHOOSE g \in {Gain(k, R) : k \in RhoGrid} :
                 \A k \in RhoGrid : Gain(k, R) <= g

\* C1: compute_E_of_R_smart returns the maximum of E0(rho) - rho*R over the
\* whole rho range, and a rho that attains it, for every rate and profile.
C1_ReturnsMaximum ==
    \A R \in DOMAIN optRes :
        /\ optRes[R].E_R = MaxGain(R)
        /\ Gain(optRes[R].rho, R) = optRes[R].E_R

\* C2: when E0(1) - R >= E0(0) the call returns rho* = 1 and E0(1) - R after
\* exactly the two boundary evaluations, in the order rho = 0, rho = 1.
C2_BoundaryShortcut ==
    \A R \in DOMAIN optRes :
        compute_E0(RhoSteps) - R >= compute_E0(0) =>
            /\ optRes[R].rho = RhoSteps
            /\ optRes[R].E_R = compute_E0(RhoSteps) - R
            /\ optRes[R].n_evals = 2
            /\ optRes[R].trace = <<0, RhoSteps>>

\* a call taken on the tie E0(1) - R = E0(0) of a profile that is not flat
C2_Witness ==
    \E R \in DOMAIN optRes :
        /\ compute_E0(RhoSteps) - R = compute_E0(0)
        /\ R > 0
        /\ optRes[R].rho = RhoSteps

\* C3: for two rates R1 < R2 of the same run, E_R(R1) >= E_R(R2).
C3_NonIncreasingInRate ==
    \A R1, R2 \in DOMAIN optRes :
        R1 < R2 => optRes[R1].E_R >= optRes[R2].E_R

\* two rates answered on different branches, the lower one strictly better
C3_Witness ==
    \E R1, R2 \in DOMAIN optRes :
        /\ R1 < R2
        /\ optRes[R1].rho = RhoSteps
        /\ optRes[R2].rho = 0
        /\ optRes[R1].E_R > optRes[R2].E_R

\* C21: when neither end point attains the maximum of E0(rho) - rho*R, so that
\* no boundary shortcut settles the optimum, the call runs the interior search
\* and reports more than the two boundary evaluations.
C21_InteriorSearchReached ==
    \A R \in DOMAIN optRes :
        (MaxGain(R) > Gain(0, R) /\ MaxGain(R) > Gain(RhoSteps, R)) =>
            optRes[R].n_evals > 2

(***************************************************************************)
(* Shaping loop: runs                                                      *)
(***************************************************************************)
InitMB ==
    /\ mbM \in Orders
    /\ mbBeta \in Betas
    /\ mbPc = "start"
    /\ MBIdle
    /\ OptOff
    /\ E0Off
    /\ ChatOff
    /\ ApiOff
    /\ CacheOff

\* lines 19-43: the perfect-square test, the pattern and the loop variables
MBBuild ==
    /\ mbPc = "start"
    /\ LET L == IntSqrt(mbM) IN
        IF NotPerfectSquare(L, mbM)
        THEN \* print("Error: ... not a perfect square"); return None
             /\ mbPc' = "returned"
             /\ mbResult' = ReturnNone
             /\ UNCHANGED <<pattern, mbRaisedAt>>
        ELSE IF L * L - 1 = 0
        THEN \* delta = math.sqrt(3.0 / (2.0 * (L * L - 1))) divides by zero
             /\ mbPc' = "raised"
             /\ mbRaisedAt' = 24
             /\ UNCHANGED <<pattern, mbResult>>
        ELSE /\ pattern' = QamPattern(L)
             /\ mbPc' = "loop"
             /\ UNCHANGED <<mbRaisedAt, mbResult>>
    /\ s' = S0
    /\ converged' = FALSE
    /\ final_iter' = -1
    /\ UNCHANGED <<mbM, mbBeta, iteration, delta_s, Q, Qprev, fpMemo, optVars, calcVars,
                   apiVars, cacheVars, chatVars>>

\* one pass of the body of `for iteration in range(max_iterations)`, lines 46-72
MBIterate ==
    /\ mbPc = "loop"
    /\ iteration < max_iterations
    /\ \E out \in (IF s \in DOMAIN fpMemo THEN {fpMemo[s]}
                   ELSE StepOutcomes(mbBeta, pattern_energy(pattern))) :
        /\ fpMemo' = IF s \in DOMAIN fpMemo THEN fpMemo ELSE fpMemo @@ (s :> out)
        /\ IF ~out.ok
           THEN /\ mbPc' = "raised"
                /\ mbRaisedAt' = out.line
                /\ UNCHANGED <<s, iteration, converged, final_iter, delta_s, Q, Qprev>>
           ELSE LET s_new == out.v
                IN  /\ Q' = ShapedQ(mbBeta, s, pattern_energy(pattern))
                    /\ delta_s' = Abs(s_new - s)
                    /\ Qprev' = Q
                    /\ s' = s_new
                    /\ UNCHANGED mbRaisedAt
                    /\ IF ConvergenceTest(delta_s')
                       THEN /\ converged' = TRUE
                            /\ final_iter' = iteration
                            /\ mbPc' = "after"
                            /\ UNCHANGED iteration
                       ELSE /\ iteration' = iteration + 1
                            /\ mbPc' = IF iteration + 1 < max_iterations THEN "loop" ELSE "after"
                            /\ UNCHANGED <<converged, final_iter>>
    /\ UNCHANGED <<mbM, mbBeta, pattern, mbResult, optVars, calcVars, apiVars, cacheVars, chatVars>>

\* lines 74-119: the final Q from the final s, the statistics and the result.
\* With beta > 0 the final weights can underflow to 0.0, and then
\* q / Q_sum (line 87) or max_q / min_q (line 107) divides by zero.
MBFinish ==
    /\ mbPc = "after"
    /\ \E underflow \in (IF mbBeta > 0 THEN BOOLEAN ELSE {FALSE}) :
        IF underflow
        THEN /\ mbPc' = "raised"
             /\ mbRaisedAt' = 107
             /\ UNCHANGED mbResult
        ELSE /\ mbPc' = "returned"
             /\ mbResult' = ReturnDict(converged, final_iter, s,
                                       ShapedQ(mbBeta, s, pattern_energy(pattern)))
             /\ UNCHANGED mbRaisedAt
    /\ UNCHANGED <<mbM, mbBeta, pattern, s, iteration, converged, final_iter,
                   delta_s, Q, Qprev, fpMemo, optVars, calcVars,
                   apiVars, cacheVars, chatVars>>

NextMB == MBBuild \/ MBIterate \/ MBFinish

SpecMB == InitMB /\ [][NextMB]_vars

C9_MultiSignalConvergence ==
    converged => /\ delta_s < tolerance
                 /\ (final_iter > 0 => Q = Qprev)

\* C10: once entered, the loop is left either at the first iteration that
\* meets the tolerance or after exactly max_iterations iterations.
C10_LoopStopsByToleranceOrBudget ==
    (pattern # <<>> /\ mbPc \in {"after", "returned", "raised"}) =>
        \/ converged /\ final_iter = iteration /\ delta_s < tolerance
        \/ ~converged /\ iteration = max_iterations

\* C29: the returned dict has converged True exactly when the loop was left
\* through the tolerance test; then iterations is the index of the first
\* iteration that met the tolerance and final_s is the s_new of that
\* iteration; otherwise iterations is -1 and final_s is the scale after the
\* last of the max_iterations updates.
C29_ResultReportsLoopExit ==
    /\ [](mbResult.kind = "dict" =>
            /\ mbResult.converged <=> delta_s < tolerance
            /\ mbResult.final_s = s
            /\ \E before \in DOMAIN fpMemo :
                  fpMemo[before].ok /\ fpMemo[before].v = s /\ Abs(s - before) = delta_s
            /\ mbResult.converged =>
                  mbResult.iterations = iteration /\ iteration < max_iterations
            /\ ~mbResult.converged =>
                  mbResult.iterations = -1 /\ iteration = max_iterations)
    /\ [][(mbPc = "loop" /\ iteration' # iteration) =>
              /\ iteration' = iteration + 1
              /\ delta_s' >= tolerance
              /\ ~converged']_vars

\* a run that met the tolerance in its second iteration and returned
C29_Witness ==
    /\ mbPc = "returned"
    /\ mbResult.kind = "dict"
    /\ mbResult.converged
    /\ mbResult.iterations = 1
    /\ mbResult.final_s = 2

\* C11: with beta = 0 every point has the same probability 1/M, in the Q of
\* each iteration and in the Q recomputed after the loop.
C11_BetaZeroUniform ==
    mbBeta = 0 =>
        /\ Uniform(Q)
        /\ (mbResult.kind = "dict" => Uniform(mbResult.Q) /\ Len(mbResult.Q) = mbM)

\* a run with beta = 0 on at least four points that iterated and returned
C11_Witness ==
    /\ mbBeta = 0
    /\ mbM >= 4
    /\ Len(Q) = mbM
    /\ mbPc = "returned"
    /\ mbResult.kind = "dict"
    /\ Len(mbResult.Q) = mbM

(***************************************************************************)
(* E0Calculator: runs                                                      *)
(***************************************************************************)
InitE0 ==
    /\ calc = [NoCalc EXCEPT !.status = "new"]
    /\ e0Out = NoE0
    /\ ZW = NoGrid
    /\ OptOff
    /\ MBOff
    /\ ApiOff
    /\ ChatOff
    /\ CacheOff

\* E0Calculator.__init__(M, constellation_type, SNR_linear): lines 22-34
Construct ==
    /\ calc.status = "new"
    /\ \E M \in CalcOrders, type \in CalcTypes, SNR \in CalcSNRs :
        LET g == generate_constellation(M, type)
        IN  calc' = IF g.ok
                    THEN [status |-> "ready", M |-> M, type |-> type, SNR |-> SNR,
                          X |-> normalize_constellation(g.X, UniformQ(M)),
                          Q |-> UniformQ(M)]
                    ELSE \* ValueError leaves __init__ before self.X is assigned
                         [status |-> "ValueError", M |-> M, type |-> type, SNR |-> SNR,
                          X |-> NoPoints, Q |-> <<>>]
    /\ UNCHANGED <<e0Out, ZW, optVars, mbVars, apiVars, cacheVars, chatVars>>

\* E0Calculator.compute_E0(rho, N)
ComputeE0 ==
    /\ calc.status = "ready"
    /\ \E rho \in CalcRhos, N \in NodeCounts :
        e0Out' = calc_compute_E0(calc, rho, N)
    /\ UNCHANGED <<calc, ZW, optVars, mbVars, apiVars, cacheVars, chatVars>>

\* E0Calculator.compute_2d_quadrature_grid(N)
QuadratureGrid ==
    /\ calc.status = "ready"
    /\ \E N \in NodeCounts : ZW' = [N |-> N, grid |-> compute_2d_quadrature_grid(N)]
    /\ UNCHANGED <<calc, e0Out, optVars, mbVars, apiVars, cacheVars, chatVars>>

NextE0 == Construct \/ ComputeE0 \/ QuadratureGrid

SpecE0 == InitE0 /\ [][NextE0]_vars

\* agreement with zero within the resolution of the arithmetic (1 percent)
E0Tol == FP \div 100

\* C4: compute_E0 at rho = 0 returns 0: the weighted sum over the 2D grid,
\* divided by pi and averaged over the symbols, is 1.
C4_E0ZeroAtRhoZero ==
    (e0Out.kind # "none" /\ e0Out.rho = 0 /\ calc.SNR >= 0) =>
        /\ e0Out.kind = "float"
        /\ Abs(e0Out.outer_sum - FP) <= E0Tol
        /\ Abs(e0Out.E0) <= E0Tol

\* C18: compute_2d_quadrature_grid(N) returns N * N nodes, the node of row i
\* and column j being t_i + 1j * t_j with weight w_i * w_j, and the 2D weights
\* sum to the square of the sum of the 1D weights (each of the N * N products
\* is rounded once, which bounds the difference).
C18_GridIsTensorProduct ==
    ZW # NoGrid =>
        LET N == ZW.N
            r == roots_hermite(N)
            W == [k \in DOMAIN ZW.grid |-> ZW.grid[k].w]
        IN  /\ Len(ZW.grid) = N * N
            /\ \A i, j \in 1..N :
                  /\ ZW.grid[(i - 1) * N + j].z = <<r.nodes[i], r.nodes[j]>>
                  /\ ZW.grid[(i - 1) * N + j].w = Mul(r.weights[i], r.weights[j])
            /\ Abs(SumSeq(W) - Mul(SumSeq(r.weights), SumSeq(r.weights))) <= N * N

C18_Witness == ZW.N = 3 /\ Len(ZW.grid) = 9

C14_ExpArgumentsClamped ==
    e0Out.kind = "float" =>
        /\ e0Out.exp_min >= -500 * FP
        /\ e0Out.exp_max <= 500 * FP

(***************************************************************************)
(* Service: runs                                                           *)
(***************************************************************************)
Sessions == {"a", "b"}

\* `if len(conversation_history) > 10` keeps conversation_history[-10:]
HistoryCap == 10

\* query strings of GET /exponents
SnrTexts == {"1.0", "5", "0", "-1", "inf", "Infinity", "-inf", "nan", "NaN", "unknown", "", "abc"}
OrderTexts == {"2", "abc"}
TypeTexts == {"PAM", "unknown"}
RateTexts == {"0.5", "nan"}
NodeTexts == {"20"}

\* what the language model may answer: parameter texts of a call line
BaseArgs == [k \in ParamNames |->
                CASE k = "SNR" -> Raw("5")
                  [] k = "R" -> Raw("0.5")
                  [] k = "M" -> Raw("2")
                  [] k = "typeModulation" -> Raw("PAM")
                  [] k = "N" -> Raw("20")]

ArgTexts(k) ==
    CASE k = "SNR" -> {Absent, Raw("-5"), Raw("inf"), Raw("Infinity"), Raw("-inf"), Raw("nan"),
                       Raw("Unknown"), RawList(<<"-1", "5">>)}
      [] k = "R" -> {Raw("0"), Raw("1.0"), Raw("1.5"), Raw("abc"), RawList(<<"1.5", "abc">>)}
      [] k = "M" -> {Raw("0"), Raw("abc"), RawList(<<"2", "0">>)}
      [] k = "typeModulation" -> {Raw("QAM"), Raw("PSK"), RawList(<<"PAM", "PSK">>)}
      [] k = "N" -> {Raw("0"), Raw("unknown")}

\* the base call with at most one parameter text changed
ArgDicts == {BaseArgs} \cup
            {[BaseArgs EXCEPT ![k] = a] : <<k, a>> \in UNION {{k} \X ArgTexts(k) : k \in ParamNames}}

TextLine == [func |-> "", args |-> [k \in ParamNames |-> Absent]]
CallLine(f, a) == [func |-> f, args |-> a]
CallLines ==
    {CallLine("computeErrorProbability", a) : a \in ArgDicts}
    \cup {CallLine(f, a) : f \in {"computeErrorExponent", "computeOptimalRho"},
                            a \in {BaseArgs, [BaseArgs EXCEPT !["SNR"] = Raw("-5")]}}
    \cup {CallLine(f, a) : f \in PlotFunctions,
                            a \in {BaseArgs, [BaseArgs EXCEPT !["SNR"] = Raw("Unknown")]}}
FirstLines == {CallLine("computeErrorProbability", a) :
                  a \in {BaseArgs, [BaseArgs EXCEPT !["SNR"] = Raw("-5")]}}
SecondLines == {TextLine, CallLine("computeErrorExponent", [BaseArgs EXCEPT !["R"] = Raw("1.5")])}

Responses ==
    {<<TextLine>>}
    \cup {<<c>> : c \in CallLines}
    \cup {<<TextLine, c>> : c \in FirstLines}
    \cup {<<c, l>> : c \in FirstLines, l \in SecondLines}

\* what a history keeps of one exchange: whose it is, when, how many calls
ConversationEntry(session_id, timestamp, calls) ==
    [session |-> session_id, timestamp |-> timestamp, function_calls |-> Len(calls)]

LastN_oldest(q, n) == IF Len(q) <= n THEN q ELSE SubSeq(q, 1, n)

\* q[-n:]
LastN(q, n) == IF Len(q) <= n THEN q ELSE SubSeq(q, Len(q) - n + 1, Len(q))

\* _build_conversation_context(current_message, max_history=3): the entries of
\* self.conversation_history that go into the messages
max_history == 3
build_conversation_context(conversation_history) == LastN(conversation_history, max_history)

set_agent_history_kept(current, session_id) == current

\* `agent_to_use.conversation_history = conversation_history`: the session whose
\* list the agent holds from then on
set_agent_history(current, session_id) == session_id

\* the list openrouter_agent.conversation_history refers to
AgentHistory(store, agent, detached) ==
    IF agent \in DOMAIN store THEN store[agent] ELSE detached

\* `del conversation_store[session_id]`
clear_conversation_session(store, session_id) ==
    [k \in DOMAIN store \ {session_id} |-> store[k]]

Cleared(session_id) == "Conversation session " \o session_id \o " cleared"

InitApi ==
    /\ server = "up"
    /\ conversation_store = <<>>
    /\ agentSession = ""
    /\ agentDetached = <<>>
    /\ reqCount = 0
    /\ function_calls = <<>>
    /\ apiResponse = NoResponse
    /\ engineCall = NoCall
    /\ query = NoQuery
    /\ context = NoContext
    /\ sessionLog = <<>>
    /\ clock = 0
    /\ computeRun = NoRun
    /\ OptOff
    /\ MBOff
    /\ E0Off
    /\ ChatOff
    /\ CacheOff

\* GET /exponents
Exponents ==
    /\ server = "up"
    /\ reqCount < MaxRequests
    /\ \E M \in OrderTexts, typeM \in TypeTexts, SNR \in SnrTexts \cup {NotGiven},
          R \in RateTexts, N \in NodeTexts :
        LET params == [M |-> sanitize_query_param(M, Num(2 * FP), FALSE),
                       typeModulation |-> sanitize_query_param(typeM, Str("PAM"), TRUE),
                       SNR |-> sanitize_query_param(Query(SNR, "1.0"), Num(FP), FALSE),
                       Rate |-> sanitize_query_param(R, Num(FP \div 2), FALSE),
                       N |-> sanitize_query_param(N, Num(20 * FP), FALSE)]
        IN  /\ engineCall' = call_cpp_exponents(params)
            /\ query' = SNR
            /\ apiResponse' = [endpoint |-> "/exponents", status |-> 200,
                               message |-> "values", task |-> NoTask]
    /\ reqCount' = reqCount + 1
    /\ function_calls' = <<>>
    /\ UNCHANGED <<server, conversation_store, agentSession, agentDetached, context, sessionLog, clock,
                   computeRun, optVars, mbVars, calcVars, cacheVars, chatVars>>

\* POST /assistant: chatbot_with_bot.  The handler is a coroutine without an
\* await, so the event loop runs it from its first line to its return.
Assistant ==
    /\ server = "up"
    /\ reqCount < MaxRequests
    /\ reqCount' = reqCount + 1
    /\ \E session_id \in Sessions, answered \in BOOLEAN :
        LET isNew == session_id \notin DOMAIN conversation_store
            created == IF isNew THEN conversation_store @@ (session_id :> <<>>)
                       ELSE conversation_store
            log == IF isNew THEN sessionLog @@ (session_id :> <<>>) ELSE sessionLog
            agent == set_agent_history(agentSession, session_id)
        IN  /\ agentSession' = agent
            /\ agentDetached' = IF agent = agentSession THEN agentDetached ELSE <<>>
            /\ context' = [session_id |-> session_id,
                           entries |-> build_conversation_context(
                                           AgentHistory(created, agent, agentDetached))]
            /\ IF ~answered
               THEN \* requests.post raised: `except Exception` answers 500
                    /\ conversation_store' = created
                    /\ sessionLog' = log
                    /\ clock' = clock
                    /\ function_calls' = <<>>
                    /\ apiResponse' = [endpoint |-> "/assistant", status |-> 500,
                                       message |-> "Error in assistant", task |-> NoTask]
               ELSE \E response_text \in Responses :
                    LET parsed == parse_function_calls(response_text)
                        entry == ConversationEntry(session_id, clock + 1, parsed.function_calls)
                        appended == Append(created[session_id], entry)
                    IN  /\ function_calls' = parsed.function_calls
                        /\ clock' = clock + 1
                        /\ sessionLog' = [log EXCEPT ![session_id] = Append(@, entry)]
                        /\ conversation_store' =
                              [created EXCEPT ![session_id] =
                                  IF Len(appended) > HistoryCap
                                  THEN LastN(appended, HistoryCap) ELSE appended]
                        /\ apiResponse' = assistant_response(parsed.intro_text,
                                                             parsed.function_calls)
    /\ UNCHANGED <<server, engineCall, query, computeRun, optVars, mbVars, calcVars, cacheVars, chatVars>>

\* DELETE /assistant/session/{session_id}.  main.py never binds the name
\* local_agent (lines 18-22 are a string literal), so line 877 raises NameError
\* right after the `del`: the request ends as an unhandled server error and
\* lines 878-880 do not run.
ClearSession ==
    /\ server = "up"
    /\ reqCount < MaxRequests
    /\ reqCount' = reqCount + 1
    /\ \E session_id \in Sessions :
        IF session_id \in DOMAIN conversation_store
        THEN /\ conversation_store' = clear_conversation_session(conversation_store, session_id)
             /\ sessionLog' = [k \in DOMAIN conversation_store' |-> sessionLog[k]]
             /\ agentSession' = IF agentSession = session_id THEN "" ELSE agentSession
             /\ agentDetached' = IF agentSession = session_id
                                 THEN conversation_store[session_id] ELSE agentDetached
             /\ apiResponse' = [endpoint |-> "/assistant/session", status |-> 500,
                                message |-> "Internal Server Error", task |-> NoTask]
        ELSE /\ UNCHANGED <<conversation_store, sessionLog, agentSession, agentDetached>>
             /\ apiResponse' = [endpoint |-> "/assistant/session", status |-> 200,
                                message |-> Cleared(session_id), task |-> NoTask]
    /\ function_calls' = <<>>
    /\ UNCHANGED <<server, engineCall, query, context, clock, computeRun, optVars, mbVars, calcVars,
                   cacheVars, chatVars>>

NextApi == Exponents \/ Assistant \/ ClearSession

SpecApi == InitApi /\ [][NextApi]_vars

\* the calculator and the service, either one running
SpecSNR == (InitE0 \/ InitApi) /\ [][NextE0 \/ NextApi]_vars

Finite(v) == v.t = "num"

\* C5: the engine never runs with a negative or non-finite SNR: neither
\* compute_E0 of an E0Calculator nor lib.exponents behind GET /exponents.
C5_BadSnrNeverEvaluated ==
    /\ e0Out # NoE0 => e0Out.SNR >= 0
    /\ engineCall.ran => Finite(engineCall.SNR) /\ engineCall.SNR.n >= 0

\* C6: when the call parsed from the model response failed validation, POST
\* /assistant answers with the validation error and returns no task.
C6_InvalidCallNeverReturned ==
    (function_calls # <<>> /\ ~function_calls[1].is_valid) =>
        /\ apiResponse.task = NoTask
        /\ apiResponse.message = function_calls[1].error_message

(***************************************************************************)
(* Sessions: the service after session "a" has had HistoryCap - 1 or       *)
(* HistoryCap plain-text exchanges, so that the next ones reach the cap    *)
(***************************************************************************)
Exchanged(n) == [i \in 1..n |-> ConversationEntry("a", i, <<>>)]

InitSessions ==
    /\ server = "up"
    /\ \E n \in {HistoryCap - 1, HistoryCap} :
          /\ conversation_store = ("a" :> Exchanged(n))
          /\ sessionLog = ("a" :> Exchanged(n))
          /\ clock = n
          /\ context = [session_id |-> "a",
                        entries |-> build_conversation_context(Exchanged(n - 1))]
    /\ agentSession = "a"
    /\ agentDetached = <<>>
    /\ reqCount = 0
    /\ function_calls = <<>>
    /\ apiResponse = assistant_response(<<TextLine>>, <<>>)
    /\ engineCall = NoCall
    /\ query = NoQuery
    /\ computeRun = NoRun
    /\ OptOff
    /\ MBOff
    /\ E0Off
    /\ ChatOff
    /\ CacheOff

SpecSessions == InitSessions /\ [][NextApi]_vars

\* C22: every stored history holds at most 10 entries, they are the most
\* recent entries recorded for that session, oldest first, and after an
\* /assistant request the agent's conversation_history is the stored list of
\* the request's session.
C22_StoreKeepsLatestTen ==
    /\ \A sid \in DOMAIN conversation_store :
          /\ Len(conversation_store[sid]) <= 10
          /\ LET log == sessionLog[sid]
                 first == IF Len(log) > 10 THEN Len(log) - 9 ELSE 1
             IN  conversation_store[sid] = SubSeq(log, first, Len(log))
          /\ \A i, j \in DOMAIN conversation_store[sid] :
                i < j => conversation_store[sid][i].timestamp
                            < conversation_store[sid][j].timestamp
    /\ apiResponse.endpoint = "/assistant" =>
          /\ agentSession = context.session_id
          /\ agentSession \in DOMAIN conversation_store

\* a session that has dropped its oldest entry
C22_Witness ==
    /\ apiResponse.endpoint = "/assistant"
    /\ \E sid \in DOMAIN conversation_store :
          /\ Len(sessionLog[sid]) > 10
          /\ Len(conversation_store[sid]) = 10
          /\ conversation_store[sid][1] # sessionLog[sid][1]

\* the entries recorded for the session of the latest /assistant request
\* before that request
Before(log) == IF apiResponse.status = 200 THEN SubSeq(log, 1, Len(log) - 1) ELSE log

\* C23: the context built for an /assistant request holds at most 3 entries,
\* all of them recorded for the request's own session since it was last
\* created, and they are the most recent ones.
C23_ContextOfOwnSession ==
    apiResponse.endpoint = "/assistant" =>
        /\ Len(context.entries) <= 3
        /\ \A i \in DOMAIN context.entries : context.entries[i].session = context.session_id
        /\ context.session_id \in DOMAIN sessionLog
        /\ LET log == Before(sessionLog[context.session_id])
               first == IF Len(log) > 3 THEN Len(log) - 2 ELSE 1
           IN  context.entries = SubSeq(log, first, Len(log))

\* a request on session "a" with a full context while "b" holds entries too
C23_Witness ==
    /\ apiResponse.endpoint = "/assistant"
    /\ context.session_id = "a"
    /\ Len(context.entries) = 3
    /\ "b" \in DOMAIN conversation_store
    /\ Len(conversation_store["b"]) > 0

\* C24: DELETE /assistant/session/{session_id} answers 'Conversation session
\* {session_id} cleared'; a session that existed is then absent from the store
\* and the agent's history is empty; every other session keeps its history.
C24_ClearSessionEffect ==
    [][(apiResponse'.endpoint = "/assistant/session" /\ reqCount' # reqCount) =>
          \E sid \in Sessions :
              /\ apiResponse'.status = 200
              /\ apiResponse'.message = "Conversation session " \o sid \o " cleared"
              /\ sid \in DOMAIN conversation_store =>
                    /\ sid \notin DOMAIN conversation_store'
                    /\ agentSession' \notin DOMAIN conversation_store'
                    /\ agentDetached' = <<>>
              /\ \A other \in DOMAIN conversation_store \ {sid} :
                    /\ other \in DOMAIN conversation_store'
                    /\ conversation_store'[other] = conversation_store[other]]_vars

\* C16: a request that does not give the SNR, or gives it as 'unknown', is
\* evaluated with SNR = 5.0.
C16_DefaultSnrIsFive ==
    (engineCall.ran /\ Lower(query) \in {NotGiven, "unknown"}) =>
        engineCall.SNR = Num(5 * FP)

\* C15: a compute call whose typeModulation is PAM, PSK or QAM and whose
\* other parameters are in range (SNR >= 0, 0 < R <= 1, M >= 1, N >= 1) is
\* marked valid.
C15_ListedModulationsValid ==
    \A i \in DOMAIN function_calls :
        LET fc == function_calls[i]
            p == fc.parameters
        IN  (/\ fc.function_name \in ComputeFunctions
             /\ p["typeModulation"] \in {Str("PAM"), Str("PSK"), Str("QAM")}
             /\ p["SNR"].t = "num" /\ p["SNR"].n >= 0
             /\ p["R"].t = "num" /\ p["R"].n > 0 /\ p["R"].n <= FP
             /\ p["M"].t = "num" /\ p["M"].n >= FP
             /\ p["N"].t = "num" /\ p["N"].n >= FP)
            => fc.is_valid

(***************************************************************************)
(* QAM orders that are not perfect squares                                 *)
(***************************************************************************)
\* the calculator and the shaping script, either one running
SpecQAM == (InitE0 \/ InitMB) /\ [][NextE0 \/ NextMB]_vars

IsSquare(M) == \E k \in 0..M : k * k = M

\* C7: a QAM order that is not a perfect square ends in an explicit error
\* and nothing is built: the calculator raises ValueError before any point,
\* normalization or evaluation exists, and the shaping script returns None
\* with no pattern, no iteration and no probability vector.
C7_NonSquareQamRejected ==
    /\ (calc.status \notin {"off", "new"} /\ calc.type = "QAM" /\ ~IsSquare(calc.M)) =>
          /\ calc.status = "ValueError"
          /\ calc.X = NoPoints
          /\ calc.Q = <<>>
          /\ e0Out = NoE0
    /\ (mbPc \notin {"off", "start"} /\ ~IsSquare(mbM)) =>
          /\ mbPc = "returned"
          /\ mbResult = ReturnNone
          /\ pattern = <<>>
          /\ iteration = 0
          /\ Q = <<>>
          /\ fpMemo = <<>>

\* the shaping script was asked for a non-square order and has returned
C7_Witness ==
    /\ mbPc = "returned"
    /\ ~IsSquare(mbM)
    /\ mbResult = ReturnNone

(***************************************************************************)
(* Searching optimizers: runs                                              *)
(***************************************************************************)
InitCached ==
    /\ E0curve \in Curves
    /\ E0_cache = <<>>
    /\ eval_count = 0
    /\ callCount = 0
    /\ lastCall = NoCallYet
    /\ callLog = {}
    /\ searchMemo = <<>>
    /\ OptOff
    /\ MBOff
    /\ E0Off
    /\ ChatOff
    /\ ApiOff

\* computer.compute_E_of_R(R) on the one CachedE0Computer of the run
CachedCall ==
    /\ callCount < MaxCalls
    /\ \E R \in CachedRates :
       \E m \in (IF R \in DOMAIN searchMemo THEN {searchMemo[R]}
                 ELSE [probes : ProbeSeqs, success : BOOLEAN]) :
        LET res == cached_compute_E_of_R(Computer(E0_cache, eval_count), R,
                                         m.probes, m.success)
        IN  /\ searchMemo' = IF res.searched /\ R \notin DOMAIN searchMemo
                             THEN searchMemo @@ (R :> m) ELSE searchMemo
            /\ E0_cache' = res.c.E0_cache
            /\ eval_count' = res.c.eval_count
            /\ lastCall' = [fn |-> res.fn, R |-> R, E_R |-> res.E_R, rho |-> res.rho,
                            n_evals |-> res.n_evals, invoked |-> res.invoked,
                            reads |-> res.reads, searched |-> res.searched,
                            success |-> res.success, outcome |-> res.outcome,
                            added |-> DOMAIN res.c.E0_cache \ DOMAIN E0_cache]
            /\ callLog' = callLog \cup {[R |-> R, E_R |-> res.E_R, rho |-> res.rho]}
    /\ callCount' = callCount + 1
    /\ UNCHANGED <<E0curve, optVars, mbVars, calcVars, apiVars, chatVars>>

\* compute_E_of_R(R, SNR, N) or compute_E_of_R_relaxed_tol(R, SNR, N).  These
\* keep nothing between calls: one call from the initial state covers them.
PlainCall ==
    /\ callCount = 0
    /\ \E R \in CachedRates, probes \in ProbeSeqs, success \in BOOLEAN, relaxed \in BOOLEAN :
        lastCall' = [(IF relaxed THEN compute_E_of_R_relaxed_tol(R, probes, success)
                      ELSE compute_E_of_R(R, probes, success))
                     EXCEPT !.R = R] @@ [added |-> {}]
    /\ callCount' = callCount + 1
    /\ UNCHANGED <<E0curve, E0_cache, eval_count, callLog, searchMemo, optVars, mbVars,
                   calcVars, apiVars, chatVars>>

NextCached == CachedCall \/ PlainCall

SpecCached == InitCached /\ [][NextCached]_vars

\* the optimizers of optimize_E_of_R.py and compute_E_of_R.py, either family running
SpecEvals == (InitOpt \/ InitCached) /\ [][NextOpt \/ NextCached]_vars

CachedFn == "CachedE0Computer.compute_E_of_R"

\* C12: a call whose bounded search ended without success reports a
\* non-convergence failure of its own instead of returning like any other call.
C12_NonConvergenceReported ==
    (lastCall.searched /\ ~lastCall.success) =>
        lastCall.outcome = "OptimizationDidNotConverge"

\* C13: on one CachedE0Computer the same R always yields the same (E_R, rho*),
\* whatever was called before, and every compute_E0_cached(rho) returns
\* compute_E0(rho, SNR, N) of that very rho.
\* (the second conjunct compares with the same call on a new instance)
C13_CacheTransparent ==
    /\ \A a, b \in callLog : a.R = b.R => a = b
    /\ \A a \in callLog :
          a.R \in DOMAIN searchMemo =>
              LET fresh == cached_compute_E_of_R(Computer(<<>>, 0), a.R,
                                                 searchMemo[a.R].probes,
                                                 searchMemo[a.R].success)
              IN  a.E_R = fresh.E_R /\ a.rho = fresh.rho
    /\ lastCall.fn = CachedFn =>
          \A i \in DOMAIN lastCall.reads :
              lastCall.reads[i].value = E0curve[lastCall.reads[i].rho]

\* C17: the evaluation count a call returns is the number of compute_E0
\* invocations made during the call; for the cached optimizer this is the
\* number of cache entries the call added.
C17_EvalCountIsInvocations ==
    /\ \A R \in DOMAIN optRes : optRes[R].n_evals = Len(optRes[R].trace)
    /\ lastCall.fn # "" => lastCall.n_evals = Len(lastCall.invoked)
    /\ lastCall.fn = CachedFn => lastCall.n_evals = Cardinality(lastCall.added)

\* a cached call that searched the interior and was served from the cache alone
C17_Witness ==
    /\ lastCall.fn = CachedFn
    /\ lastCall.searched
    /\ Len(lastCall.reads) >= 3
    /\ lastCall.n_evals = 0

\* C20: on one CachedE0Computer, for any two calls with R1 < R2 the value
\* returned for R1 is at least the value returned for R2.
C20_CachedNonIncreasingInRate ==
    \A a, b \in callLog : a.R < b.R => a.E_R >= b.E_R

(***************************************************************************)
(* POST /compute: compute_task and the functions of FUNCTION_REGISTRY      *)
(***************************************************************************)
FUNCTION_REGISTRY == ComputeFunctions \cup {"computeAllMetrics", "plotFromFunction", "plotContour"}

\* function names a request carries: the computing functions and two names
\* that are not registered
FunctionNames == ComputeFunctions \cup {"computeAllMetrics", "computeCapacity", "exponents"}

\* request.parameters: a dict over some of SNR, R, M with scalar or list values
ParameterChoices ==
    [SNR : {PyNone, Num(5 * FP), List(<<Num(FP), Num(2 * FP)>>),
            List(<<Num(FP), Num(2 * FP), Num(5 * FP)>>)},
     R : {PyNone, Num(FP \div 2), List(<<Num(FP \div 4), Num(FP \div 2)>>)},
     M : {PyNone, List(<<Num(2 * FP), Num(4 * FP)>>)}]

Parameters(o) == [k \in {n \in {"SNR", "R", "M"} : o[n] # PyNone} |-> o[k]]

\* params.get(key, default) on a dict that holds only the keys it was given
DictGet(d, key, default) == IF key \in DOMAIN d THEN d[key] ELSE default

\* sanitize_query_param(value, default, target_type) on a value a Python
\* caller hands over: float(list) raises TypeError, str(nan) is 'nan'
sanitize_value(value, default, target_is_str) ==
    CASE value.t = "none" -> default
      [] value.t = "str" -> sanitize_query_param(value.s, default, target_is_str)
      [] value.t = "nan" -> default
      [] value.t = "list" -> IF target_is_str THEN Str("[...]") ELSE default
      [] OTHER -> value

\* the query_params dict the registry functions build from their keyword arguments
query_params(params) ==
    [M |-> DictGet(params, "M", Num(2 * FP)),
     typeM |-> DictGet(params, "typeModulation", Str("PAM")),
     SNR |-> DictGet(params, "SNR", Num(FP)),
     R |-> DictGet(params, "R", Num(FP \div 2)),
     N |-> DictGet(params, "N", Num(20 * FP))]

\* exponents(**query_params) called as a function: the invocation of
\* lib.exponents whose three values it returns
exponents(q) ==
    call_cpp_exponents([M |-> sanitize_value(q.M, Num(2 * FP), FALSE),
                        typeModulation |-> sanitize_value(q.typeM, Str("PAM"), TRUE),
                        SNR |-> sanitize_value(q.SNR, Num(FP), FALSE),
                        Rate |-> sanitize_value(q.R, Num(FP \div 2), FALSE),
                        N |-> sanitize_value(q.N, Num(20 * FP), FALSE)])

param_arrays(params) == {k \in DOMAIN params : params[k].t = "list"}

\* scenario_params of scenario i (1-based here, i - 1 in the code)
scenario_params_first(params, i) ==
    [k \in DOMAIN params |->
        IF params[k].t = "list" THEN params[k].l[1] ELSE params[k]]

scenario_params(params, i) ==
    [k \in DOMAIN params |->
        IF params[k].t = "list"
        THEN (IF i <= Len(params[k].l) THEN params[k].l[i] ELSE params[k].l[1])
        ELSE params[k]]

\* computeErrorProbability / computeErrorExponent / computeOptimalRho(**params):
\* the three differ in the key of the value they pick from the result.
\* first is the list-valued key that comes first in the dict.
compute_metric(params, first) ==
    IF param_arrays(params) # {}
    THEN [is_list |-> TRUE,
          results |-> [i \in 1..Len(params[first].l) |->
                          [scenario |-> i,
                           parameters |-> scenario_params(params, i),
                           value |-> exponents(query_params(scenario_params(params, i)))]]]
    ELSE [is_list |-> FALSE,
          results |-> <<[scenario |-> 0, parameters |-> params,
                         value |-> exponents(query_params(params))]>>]

\* compute_task(request).  raised is the status of the HTTPException raised
\* inside the try block (0 if none), status the one the request ends with:
\* `except Exception` catches the HTTPException of line 821 as well, and every
\* formatting step names local_agent, which main.py never binds (NameError).
compute_task(function_name, parameters, first) ==
    IF function_name \notin FUNCTION_REGISTRY
    THEN [function_name |-> function_name, parameters |-> parameters, invoked |-> <<>>,
          engine |-> <<>>, returned |-> <<>>, is_list |-> FALSE, raised |-> 404,
          status |-> 500]
    ELSE IF function_name \in ComputeFunctions
    THEN LET raw_result == compute_metric(parameters, first)
             calls == [i \in DOMAIN raw_result.results |-> raw_result.results[i].value]
         IN  [function_name |-> function_name, parameters |-> parameters,
              invoked |-> IF raw_result.is_list THEN <<function_name>>
                          ELSE <<function_name, "computeAllMetrics">>,
              engine |-> IF raw_result.is_list THEN calls
                         ELSE Append(calls, exponents(query_params(parameters))),
              returned |-> raw_result.results, is_list |-> raw_result.is_list,
              raised |-> 0, status |-> 500]
    ELSE [function_name |-> function_name, parameters |-> parameters,
          invoked |-> <<function_name>>,
          engine |-> <<exponents(query_params(parameters))>>,
          returned |-> <<[scenario |-> 0, parameters |-> parameters,
                          value |-> exponents(query_params(parameters))]>>,
          is_list |-> FALSE, raised |-> 0, status |-> 500]

Compute ==
    /\ server = "up"
    /\ reqCount < MaxRequests
    /\ reqCount' = reqCount + 1
    /\ \E function_name \in FunctionNames, o \in ParameterChoices :
        \E first \in (IF param_arrays(Parameters(o)) = {} THEN {""}
                      ELSE param_arrays(Parameters(o))) :
            LET run == compute_task(function_name, Parameters(o), first)
            IN  /\ computeRun' = run
                /\ engineCall' = IF run.engine = <<>> THEN engineCall
                                  ELSE run.engine[Len(run.engine)]
                /\ apiResponse' = [endpoint |-> "/compute", status |-> run.status,
                                   message |-> IF run.raised = 404
                                               THEN "Error during computation: 404: Function not found"
                                               ELSE "Error during computation: name 'local_agent' is not defined",
                                   task |-> NoTask]
    /\ function_calls' = <<>>
    /\ UNCHANGED <<server, conversation_store, agentSession, agentDetached, query, context,
                   sessionLog, clock, optVars, mbVars, calcVars, cacheVars, chatVars>>

SpecCompute == InitApi /\ [][Compute]_vars

\* C25: a POST /compute naming a function that is not in FUNCTION_REGISTRY is
\* answered with HTTP 404 and detail 'Function not found', and no registered
\* function is invoked.
C25_UnknownFunctionIs404 ==
    (apiResponse.endpoint = "/compute" /\ computeRun.function_name \notin FUNCTION_REGISTRY) =>
        /\ apiResponse.status = 404
        /\ apiResponse.message = "Function not found"
        /\ computeRun.invoked = <<>>

ListKeys(params) == {k \in DOMAIN params : params[k].t = "list"}

EqualLengths(params) ==
    \A j, k \in ListKeys(params) : Len(params[j].l) = Len(params[k].l)

\* what C26 says of one call of a computing function with list parameters
ScenariosAsListed(run) ==
    /\ run.is_list
    /\ Len(run.engine) = Len(run.returned)
    /\ \A k \in ListKeys(run.parameters) :
          /\ Len(run.returned) = Len(run.parameters[k].l)
          /\ \A i \in DOMAIN run.returned :
                run.returned[i].parameters[k] = run.parameters[k].l[i]
    /\ \A i \in DOMAIN run.returned :
          /\ run.returned[i].scenario = i
          /\ DOMAIN run.returned[i].parameters = DOMAIN run.parameters
          /\ \A k \in DOMAIN run.parameters \ ListKeys(run.parameters) :
                run.returned[i].parameters[k] = run.parameters[k]
          /\ run.engine[i] = run.returned[i].value
          /\ "SNR" \in DOMAIN run.parameters =>
                run.engine[i].SNR = run.returned[i].parameters["SNR"]

\* C26: a computing function called with list parameters of one common length
\* n invokes the engine once per scenario and returns n results numbered 1..n
\* in input order; scenario i uses the i-th element of every list parameter
\* and every scalar parameter unchanged.
C26_OneResultPerScenario ==
    (/\ computeRun.function_name \in ComputeFunctions
     /\ ListKeys(computeRun.parameters) # {}
     /\ EqualLengths(computeRun.parameters)) => ScenariosAsListed(computeRun)

\* C26 as stated, for list parameters of any lengths
C26_AnyLengths ==
    (/\ computeRun.function_name \in ComputeFunctions
     /\ ListKeys(computeRun.parameters) # {}) => ScenariosAsListed(computeRun)

\* two list parameters of length 2 and a scalar one
C26_Witness ==
    /\ computeRun.function_name = "computeErrorExponent"
    /\ DOMAIN computeRun.parameters = {"SNR", "R", "M"}
    /\ ListKeys(computeRun.parameters) = {"R", "M"}
    /\ Len(computeRun.returned) = 2
    /\ computeRun.returned[2].parameters["R"] = Num(FP \div 2)

(***************************************************************************)
(* Terminal chat: TransmissionSystemAgent.execute_function_calls and       *)
(* TerminalChatInterface.handle_chat_query of chatbotV2.py                 *)
(***************************************************************************)
MaxBatch == 2

\* FUNCTION_REGISTRY of chatbotV2.py
ChatRegistry == {"computeErrorProbability", "computeErrorExponent", "plotFromFunction"}

ChatFunctionNames == ChatRegistry \cup {"computeOptimalRho"}

\* parameters of a call: none, or SNR left as 'unknown'
ChatParameters == {<<>>, [k \in {"SNR"} |-> Str("unknown")]}

ValidationError == "Rate must be between 0 and 1"

FunctionCall(function_name, parameters, is_valid) ==
    [function_name |-> function_name, parameters |-> parameters, is_valid |-> is_valid,
     error_message |-> IF is_valid THEN "" ELSE ValidationError]

\* any FunctionCall objects a caller may hand to execute_function_calls
FunctionCalls ==
    {FunctionCall(f, q, v) : f \in ChatFunctionNames, q \in ChatParameters, v \in BOOLEAN}

\* the calls parse_function_calls produces: its patterns name the registry's
\* functions only, and _validate_parameters checks the two computing ones only
ParsedCalls ==
    {c \in FunctionCalls : /\ c.function_name \in ChatRegistry
                           /\ c.function_name = "plotFromFunction" => c.is_valid}

Batches(S, lo) == UNION {[1..n -> S] : n \in lo..MaxBatch}

\* what a computing function does when called: return a float (call_exponents
\* is not part of src/) or raise
ResultValues == {0, FP \div 4}
Outcomes == {[raises |-> TRUE, value |-> 0]}
                \cup {[raises |-> FALSE, value |-> v] : v \in ResultValues}

\* the defaults execute_function_calls puts in place of 'unknown'
CleanDefault(key) ==
    CASE key = "N" -> Num(FP)
      [] key = "R" -> Num(FP \div 2)
      [] key = "SNR" -> Num(5 * FP)
      [] key = "M" -> Num(2 * FP)
      [] key = "typeModulation" -> Str("PAM")
      [] OTHER -> Str("unknown")

clean_params(parameters) ==
    [k \in DOMAIN parameters |->
        IF parameters[k] = Str("unknown") THEN CleanDefault(k) ELSE parameters[k]]

ExecutionResult(success, result_value, parameters_used, error_message) ==
    [success |-> success, result_value |-> result_value,
     parameters_used |-> parameters_used, error_message |-> error_message]

\* one turn of the loop of execute_function_calls: the result it appends,
\* whether the registry function was called, and whether it raised
execute_one(func_call, outcome) ==
    IF ~func_call.is_valid
    THEN [result |-> ExecutionResult(FALSE, PyNone, func_call.parameters,
                                     func_call.error_message),
          invoked |-> FALSE, raised |-> FALSE]
    ELSE IF func_call.function_name \in ChatRegistry
    THEN IF func_call.function_name = "plotFromFunction"
         THEN [result |-> ExecutionResult(TRUE, Str("Plot data generated for PAM modulation"),
                                          clean_params(func_call.parameters), ""),
               invoked |-> TRUE, raised |-> FALSE]
         ELSE IF outcome.raises
         THEN [result |-> ExecutionResult(FALSE, PyNone, func_call.parameters,
                                          "Execution error: "),
               invoked |-> TRUE, raised |-> TRUE]
         ELSE [result |-> ExecutionResult(TRUE, Num(outcome.value),
                                          clean_params(func_call.parameters), ""),
               invoked |-> TRUE, raised |-> FALSE]
    ELSE [result |-> ExecutionResult(FALSE, PyNone, func_call.parameters,
                                     "Function '" \o func_call.function_name
                                         \o "' not implemented"),
          invoked |-> FALSE, raised |-> FALSE]

execute_function_calls_valid_only(calls, outcomes) ==
    LET turns == [i \in DOMAIN calls |-> execute_one(calls[i], outcomes[i])]
        Kept(turn) == turn.invoked
    IN  SelectSeq(turns, Kept)

execute_function_calls(calls, outcomes) ==
    [i \in DOMAIN calls |-> execute_one(calls[i], outcomes[i])]

\* f"{v:.2e}" below 0.001 and f"{v:.4f}" from there on, str(v) for a non-float
value_str(v) ==
    IF v.t # "num" THEN v.s
    ELSE IF v.n * 1000 < FP
    THEN (IF v.n = 0 THEN "0.00e+00" ELSE "<.2e>")
    ELSE (IF v.n = FP \div 4 THEN "0.2500" ELSE "<.4f>")

\* wording of an answer that reports one value of the named function
answer_for(function_name, value) ==
    CASE function_name = "computeErrorProbability" -> "The error probability is " \o value \o "."
      [] function_name = "computeErrorExponent" -> "The error exponent is " \o value \o "."
      [] function_name = "plotFromFunction" -> "Plot generated successfully."
      [] OTHER -> "The computed result is " \o value \o "."

\* _is_optimization_query: the calls' parameters are read under the keys
\* 'rate' and 'snr'
Varying(calls, key) ==
    Cardinality({calls[i].parameters[key] :
                    i \in {j \in DOMAIN calls : key \in DOMAIN calls[j].parameters}}) > 1

is_optimization_query(keywords, calls) ==
    /\ Len(calls) > 2
    /\ \A i \in DOMAIN calls : calls[i].function_name = "computeErrorProbability"
    /\ keywords
    /\ (Varying(calls, "rate") \/ Varying(calls, "snr"))

\* stands for the text of _generate_optimization_response
OptimizationResponse == "<optimization response>"

Successful(result) == result.success

generate_clean_followup_response(keywords, calls, results) ==
    LET successful_results == SelectSeq(results, Successful)
    IN  IF successful_results = <<>>
        THEN "The computation encountered errors. Please check your parameters and try again."
        ELSE IF Len(successful_results) > 2 /\ is_optimization_query(keywords, calls)
        THEN OptimizationResponse
        ELSE IF Len(successful_results) = 1
        THEN answer_for(calls[1].function_name,
                        value_str(successful_results[1].result_value))
        ELSE IF Len(successful_results) = 2
        THEN IF successful_results[1].result_value.t = "num"
                /\ successful_results[2].result_value.t = "num"
             THEN LET val1_str == value_str(successful_results[1].result_value)
                      val2_str == value_str(successful_results[2].result_value)
                  IN  CASE calls[1].function_name = "computeErrorProbability" ->
                               "The error probabilities are " \o val1_str \o " and "
                                   \o val2_str \o " respectively."
                        [] calls[1].function_name = "computeErrorExponent" ->
                               "The error exponents are " \o val1_str \o " and "
                                   \o val2_str \o " respectively."
                        [] OTHER ->
                               "The computed values are " \o val1_str \o " and "
                                   \o val2_str \o " respectively."
             ELSE "Multiple computations completed successfully."
        ELSE "All computations completed successfully."

\* a response has been generated and its calls are at hand
InitChat ==
    /\ \E calls \in Batches(FunctionCalls, 0), keywords \in BOOLEAN :
          chat = [NoChat EXCEPT !.op = "pending", !.keywords = keywords,
                                !.function_calls = calls]
    /\ parseRun = NoParse
    /\ OptOff
    /\ MBOff
    /\ calc = NoCalc
    /\ e0Out = NoE0
    /\ ZW = NoGrid
    /\ ApiOff
    /\ CacheOff

\* agent.execute_function_calls(function_calls), called on its own
ExecuteFunctionCalls ==
    /\ chat.op = "pending"
    /\ LET calls == chat.function_calls
       IN  \E outcomes \in [DOMAIN calls -> Outcomes] :
            LET turns == execute_function_calls(calls, outcomes)
            IN  chat' = [op |-> "execute", keywords |-> chat.keywords, function_calls |-> calls,
                         execution_results |-> [i \in DOMAIN turns |-> turns[i].result],
                         invoked |-> [i \in DOMAIN turns |-> turns[i].invoked],
                         raised |-> [i \in DOMAIN turns |-> turns[i].raised],
                         follow_up |-> "", printed_summary |-> FALSE]
    /\ UNCHANGED <<parseRun, optVars, mbVars, calcVars, apiVars, cacheVars>>

\* handle_chat_query of the terminal interface with the local agent, from
\* the calls parsed out of the response on
HandleChatQuery ==
    /\ chat.op = "pending"
    /\ chat.function_calls \in Batches(ParsedCalls, 0)
    /\ LET calls == chat.function_calls
           keywords == chat.keywords
       IN  \E outcomes \in [DOMAIN calls -> Outcomes] :
            LET turns == execute_function_calls(calls, outcomes)
                execution_results == [i \in DOMAIN turns |-> turns[i].result]
                any_success == \E i \in DOMAIN turns : turns[i].result.success
            IN  chat' = [op |-> "chat", keywords |-> keywords, function_calls |-> calls,
                         execution_results |-> execution_results,
                         invoked |-> [i \in DOMAIN turns |-> turns[i].invoked],
                         raised |-> [i \in DOMAIN turns |-> turns[i].raised],
                         follow_up |-> IF any_success
                                       THEN generate_clean_followup_response(
                                                keywords, calls, execution_results)
                                       ELSE "",
                         printed_summary |-> calls # <<>> /\ ~any_success]
    /\ UNCHANGED <<parseRun, optVars, mbVars, calcVars, apiVars, cacheVars>>

NextChat == ExecuteFunctionCalls \/ HandleChatQuery

SpecChat == InitChat /\ [][NextChat]_vars

\* C27: execute_function_calls returns exactly one ExecutionResult per
\* FunctionCall, in the order of the calls; a call that is invalid or names a
\* function outside the registry is never executed and gets success False
\* with an error message; a call whose function raised gets success False.
C27_OneResultPerCall ==
    chat.op \in {"execute", "chat"} =>
        /\ Len(chat.execution_results) = Len(chat.function_calls)
        /\ \A i \in DOMAIN chat.function_calls :
              LET call == chat.function_calls[i]
                  result == chat.execution_results[i]
              IN  /\ ~call.is_valid =>
                        /\ ~chat.invoked[i]
                        /\ ~result.success
                        /\ result.error_message = call.error_message
                        /\ result.error_message # ""
                  /\ call.function_name \notin ChatRegistry =>
                        /\ ~chat.invoked[i]
                        /\ ~result.success
                        /\ result.error_message # ""
                  /\ chat.raised[i] => ~result.success /\ result.error_message # ""
                  /\ result.success => chat.invoked[i] /\ call.is_valid
                  /\ DOMAIN result.parameters_used = DOMAIN call.parameters

\* an invalid call with parameters, followed by a call that returned a value
C27_Witness ==
    /\ chat.op = "execute"
    /\ Len(chat.function_calls) = 2
    /\ ~chat.function_calls[1].is_valid
    /\ chat.function_calls[1].parameters # <<>>
    /\ chat.function_calls[2].parameters = <<>>
    /\ chat.execution_results[2].success

\* C30: when exactly one of several executed calls succeeded, the answer is
\* worded for the function of the call that succeeded, wherever it stands.
C30_AnswerNamesSuccessfulCall ==
    (/\ chat.op = "chat"
     /\ Len(chat.function_calls) > 1
     /\ Cardinality({i \in DOMAIN chat.execution_results :
                         chat.execution_results[i].success}) = 1) =>
        \E i \in DOMAIN chat.execution_results :
            /\ chat.execution_results[i].success
            /\ chat.follow_up = answer_for(chat.function_calls[i].function_name,
                                           value_str(chat.execution_results[i].result_value))

(***************************************************************************)
(* OpenRouterAgent.parse_function_calls, line by line                      *)
(***************************************************************************)
MaxLines == 3

\* the patterns dict, in its order: "Computing <name> with (.+)"
Patterns == <<"computeErrorProbability", "computeErrorExponent", "computeOptimalRho",
              "plotFromFunction", "plotContour">>

\* a line of the response: its text after strip() ("" for a blank line), the
\* functions whose pattern re.search finds in it, and the parameters written
\* after the match
ResponseLine(text, found, args) == [text |-> text, found |-> found, args |-> args]

ResponseLines ==
    {ResponseLine("", {}, TextLine.args),
     ResponseLine("I can do that.", {}, TextLine.args),
     ResponseLine("Computing computeErrorProbability with SNR=5", {"computeErrorProbability"},
                  BaseArgs),
     ResponseLine("Computing computeErrorExponent with SNR=-5", {"computeErrorExponent"},
                  [BaseArgs EXCEPT !["SNR"] = Raw("-5")]),
     ResponseLine("Computing plotFromFunction with SNR=5 then Computing computeErrorExponent with SNR=5",
                  {"plotFromFunction", "computeErrorExponent"}, BaseArgs)}

ResponseTexts == UNION {[1..n -> ResponseLines] : n \in 1..MaxLines}

Matching(line) == {i \in DOMAIN Patterns : Patterns[i] \in line.found}

\* one turn of the loop over the lines, every matching pattern making a call
parse_line_every_match(line) ==
    IF line.text = "" THEN [conversational_lines |-> <<>>, function_calls |-> <<>>]
    ELSE IF Matching(line) = {}
    THEN [conversational_lines |-> <<line.text>>, function_calls |-> <<>>]
    ELSE [conversational_lines |-> <<>>,
          function_calls |->
              LET hit(i) == i \in Matching(line)
                  hits == SelectSeq([i \in DOMAIN Patterns |-> i], hit)
              IN  [j \in DOMAIN hits |->
                      [call |-> ParseCallLine(CallLine(Patterns[hits[j]], line.args)),
                       raw_text |-> line.text]]]

\* one turn of the loop over the lines: a blank line is skipped, the first
\* pattern that matches makes one FunctionCall and ends the search (`break`),
\* a line no pattern matches is conversational
parse_line(line) ==
    IF line.text = "" THEN [conversational_lines |-> <<>>, function_calls |-> <<>>]
    ELSE IF Matching(line) = {}
    THEN [conversational_lines |-> <<line.text>>, function_calls |-> <<>>]
    ELSE LET first == CHOOSE i \in Matching(line) : \A j \in Matching(line) : i <= j
         IN  [conversational_lines |-> <<>>,
              function_calls |-> <<[call |-> ParseCallLine(CallLine(Patterns[first], line.args)),
                                    raw_text |-> line.text]>>]

RECURSIVE parse_lines(_)
parse_lines(response) ==
    IF response = <<>> THEN [conversational_lines |-> <<>>, function_calls |-> <<>>]
    ELSE LET rest == parse_lines(Tail(response))
             head == parse_line(Head(response))
         IN  [conversational_lines |-> head.conversational_lines \o rest.conversational_lines,
              function_calls |-> head.function_calls \o rest.function_calls]

\* a response has come back from the model
InitParse ==
    /\ \E response \in ResponseTexts : parseRun = [NoParse EXCEPT !.op = "pending",
                                                               !.response = response]
    /\ chat = NoChat
    /\ OptOff
    /\ MBOff
    /\ calc = NoCalc
    /\ e0Out = NoE0
    /\ ZW = NoGrid
    /\ ApiOff
    /\ CacheOff

ParseFunctionCalls ==
    /\ parseRun.op = "pending"
    /\ LET result == parse_lines(parseRun.response)
       IN  parseRun' = [op |-> "parsed", response |-> parseRun.response,
                      conversational_lines |-> result.conversational_lines,
                      function_calls |-> result.function_calls]
    /\ UNCHANGED <<chat, optVars, mbVars, calcVars, apiVars, cacheVars>>

SpecParse == InitParse /\ [][ParseFunctionCalls]_vars

HasCall(line) == line.text # "" /\ line.found # {}
HasNoCall(line) == line.text # "" /\ line.found = {}

\* C28: every non-blank line of the response becomes exactly one of: one
\* FunctionCall (valid or invalid), or one line of the conversational text;
\* the calls are in the order of their lines, and so is the text.
C28_LinesPartitioned ==
    parseRun.op = "parsed" =>
        LET callLines == SelectSeq(parseRun.response, HasCall)
            textLines == SelectSeq(parseRun.response, HasNoCall)
        IN  /\ Len(parseRun.function_calls) = Len(callLines)
            /\ \A i \in DOMAIN callLines :
                  /\ parseRun.function_calls[i].raw_text = callLines[i].text
                  /\ parseRun.function_calls[i].call.function_name \in callLines[i].found
            /\ parseRun.conversational_lines = [i \in DOMAIN textLines |-> textLines[i].text]

\* a blank line, then a line that two patterns match, then an invalid call
C28_Witness ==
    /\ parseRun.op = "parsed"
    /\ Len(parseRun.response) = 3
    /\ parseRun.response[1].text = ""
    /\ Cardinality(parseRun.response[2].found) = 2
    /\ Len(parseRun.function_calls) = 2
    /\ ~parseRun.function_calls[2].call.is_valid

====
